---- MODULE Spec2Model ----
(***************************************************************************)
(* Memory-bandwidth benchmark: the aligned buffer, the cache-line rounding *)
(* helpers, the working-set generator, the access kernels and the          *)
(* multi-threaded run_test engine of MemoryBandwidthTester.                *)
(*                                                                         *)
(* size_t and uintptr_t are 64 bits wide.  TLC's integers are 32 bits, so  *)
(* a size_t is a tuple of four 16-bit limbs, least significant first, and  *)
(* the operators below are the C++ unsigned operators modulo 2^64.         *)
(***************************************************************************)
EXTENDS Integers, Sequences, FiniteSets, TLC

VARIABLES
    al,              \* MemoryUtils call under test: inputs and results
    objs,            \* AlignedBuffer objects: slot -> fields
    heap,            \* regions returned by operator new[]: id -> record
    abLast,          \* outcome of the last AlignedBuffer operation
    wsIn,            \* CacheInfo handed to the working-set generator
    wsOut,           \* the generator's result
    tester,          \* MemoryBandwidthTester fields
    stop_flag,       \* std::atomic<bool> stop_flag
    run,             \* the run_test / kernel invocation in progress
    workers,         \* worker threads: id -> position and locals
    thread_results,  \* std::vector<PerformanceStats> thread_results
    lastStats        \* value returned by the last run_test

vars == <<al, objs, heap, abLast, wsIn, wsOut, tester, stop_flag, run, workers,
          thread_results, lastStats>>

alignVars == <<al>>
bufVars == <<objs, heap, abLast>>
wsVars == <<wsIn, wsOut>>
runVars == <<tester, stop_flag, run, workers, thread_results, lastStats>>

\* The value of a variable the specification at hand does not use.
Idle == [pc |-> "idle", op |-> "none"]

(***************************************************************************)
(* size_t arithmetic, modulo 2^64                                          *)
(***************************************************************************)
LimbBase == 2^16

\* A size_t literal below 2^31.
U(n) == <<n % LimbBase, (n \div LimbBase) % LimbBase, 0, 0>>

SIZE_MAX == <<LimbBase - 1, LimbBase - 1, LimbBase - 1, LimbBase - 1>>

RECURSIVE AddCarry(_, _, _, _)
AddCarry(x, y, i, c) ==
    IF i > 4 THEN <<>>
    ELSE LET s == x[i] + y[i] + c
         IN  <<s % LimbBase>> \o AddCarry(x, y, i + 1, s \div LimbBase)

\* x + y
Add(x, y) == AddCarry(x, y, 1, 0)

\* ~x
Not(x) == <<LimbBase - 1 - x[1], LimbBase - 1 - x[2],
            LimbBase - 1 - x[3], LimbBase - 1 - x[4]>>

\* x - y
Sub(x, y) == Add(x, Add(Not(y), U(1)))

RECURSIVE BitAnd(_, _, _)
BitAnd(a, b, n) ==
    IF n = 0 THEN 0
    ELSE (a % 2) * (b % 2) + 2 * BitAnd(a \div 2, b \div 2, n - 1)

\* x & y
And(x, y) == <<BitAnd(x[1], y[1], 16), BitAnd(x[2], y[2], 16),
               BitAnd(x[3], y[3], 16), BitAnd(x[4], y[4], 16)>>

RECURSIVE MulCarry(_, _, _, _)
MulCarry(x, m, i, c) ==
    IF i > 4 THEN <<>>
    ELSE LET p == x[i] * m + c
         IN  <<p % LimbBase>> \o MulCarry(x, m, i + 1, p \div LimbBase)

\* x * m for a small multiplier m (m < 2^14)
Mul(x, m) == MulCarry(x, m, 1, 0)

RECURSIVE DivRem(_, _, _, _)
DivRem(x, d, i, r) ==
    IF i = 0 THEN <<>>
    ELSE LET cur == r * LimbBase + x[i]
         IN  DivRem(x, d, i - 1, cur % d) \o <<cur \div d>>

\* x / d for a small divisor d (0 < d < 2^14)
Div(x, d) == DivRem(x, d, 4, 0)

RECURSIVE LtFrom(_, _, _)
LtFrom(x, y, i) ==
    IF i = 0 THEN FALSE
    ELSE IF x[i] # y[i] THEN x[i] < y[i]
    ELSE LtFrom(x, y, i - 1)

\* x < y, x <= y
Lt(x, y) == LtFrom(x, y, 4)
Le(x, y) == ~Lt(y, x)

\* The value of a size_t that is below 2^31, as an integer.
Val(x) == x[1] + LimbBase * x[2]
Small(x) == x[3] = 0 /\ x[4] = 0 /\ x[2] < LimbBase \div 2

(***************************************************************************)
(* MemoryUtils: cache-line rounding                                        *)
(***************************************************************************)
\* align_to_cache_lines that adds cache_line_size instead of cache_line_size - 1
\* before masking the start
align_to_cache_lines_add_line(start_offset, end_offset, cache_line_size) ==
    LET mask == Not(Sub(cache_line_size, U(1)))
        aligned_start == And(Add(start_offset, cache_line_size), mask)
        aligned_end == And(end_offset, mask)
    IN  <<aligned_start, aligned_end>>

\* align_to_cache_lines that rounds the end up like the start
align_to_cache_lines_end_up(start_offset, end_offset, cache_line_size) ==
    LET mask == Not(Sub(cache_line_size, U(1)))
        aligned_start == And(Add(start_offset, Sub(cache_line_size, U(1))), mask)
        aligned_end == And(Add(end_offset, Sub(cache_line_size, U(1))), mask)
    IN  <<aligned_start, aligned_end>>

align_to_cache_lines(start_offset, end_offset, cache_line_size) ==
    LET mask == Not(Sub(cache_line_size, U(1)))
        aligned_start == And(Add(start_offset, Sub(cache_line_size, U(1))), mask)
        aligned_end == And(end_offset, mask)
    IN  <<aligned_start, aligned_end>>

calculate_working_set_size(aligned_start, aligned_end) ==
    IF Le(aligned_end, aligned_start) THEN U(0)
    ELSE Sub(aligned_end, aligned_start)

(***************************************************************************)
(* AlignedBuffer                                                           *)
(***************************************************************************)
MaxObjs == 2
MaxRegions == 2

Slots == 1..MaxObjs

\* nullptr, and a unique_ptr that owns nothing
NullPtr == U(0)
NoRegion == 0

\* An AlignedBuffer that is not constructed yet, or is destroyed.
NoObject == [state |-> "none"]
Destroyed == [state |-> "dead"]

is_power_of_two(n) == n # U(0) /\ And(n, Sub(n, U(1))) = U(0)

\* calculate_aligned_pointer masking with ~alignment_ instead of ~(alignment_ - 1)
calculate_aligned_pointer_no_minus(addr, alignment_) ==
    And(Add(addr, Sub(alignment_, U(1))), Not(alignment_))

\* aligned_addr = (addr + alignment_ - 1) & ~(alignment_ - 1)
calculate_aligned_pointer(addr, alignment_) ==
    And(Add(addr, Sub(alignment_, U(1))), Not(Sub(alignment_, U(1))))

\* is_aligned(): (addr & (alignment_ - 1)) == 0
is_aligned(o) == And(o.aligned_ptr_, Sub(o.alignment_, U(1))) = U(0)

\* Sizes, alignments and raw addresses of the modelled constructions.
BufferSizes == {U(0), U(1024), Sub(SIZE_MAX, U(64)), SIZE_MAX}
Alignments == {U(0), U(3), U(64), U(128)}
RawAddrs == {U(16), U(4097), Mul(Mul(Mul(U(1024), 1024), 1024), 1024)}

Live(h) == {r \in 1..Len(h) : h[r].released = 0}

\* operator new[] may return addr for total bytes: the block is inside the address
\* space and overlaps no block still allocated.
MayAllocate(h, addr, total) ==
    /\ Le(total, Sub(SIZE_MAX, addr))
    /\ \A r \in Live(h) :
           \/ Le(Add(addr, total), h[r].addr)
           \/ Le(Add(h[r].addr, h[r].total), addr)

\* delete[] of the region a unique_ptr owns
Release(h, r) ==
    IF r = NoRegion THEN h
    ELSE [h EXCEPT ![r].released = @ + 1]

\* The constructor without the check of size + alignment against SIZE_MAX
AlignedBuffer_no_overflow_check(slot, size, alignment) ==
    /\ objs[slot].state = "none"
    /\ IF size = U(0) \/ ~is_power_of_two(alignment)
       THEN /\ abLast' = [op |-> "construct", slot |-> slot, size |-> size,
                          alignment |-> alignment, outcome |-> "MemoryError",
                          regions |-> Len(heap)]
            /\ UNCHANGED <<objs, heap>>
       ELSE LET total_size == Add(size, alignment)
            IN  \/ /\ abLast' = [op |-> "construct", slot |-> slot, size |-> size,
                                 alignment |-> alignment, outcome |-> "bad_alloc",
                                 regions |-> Len(heap)]
                   /\ UNCHANGED <<objs, heap>>
                \/ /\ Len(heap) < MaxRegions
                   /\ \E addr \in RawAddrs :
                          /\ MayAllocate(heap, addr, total_size)
                          /\ heap' = Append(heap, [addr |-> addr, total |-> total_size,
                                                   released |-> 0])
                          /\ objs' = [objs EXCEPT ![slot] =
                                 [state |-> "live", raw_buffer_ |-> Len(heap) + 1,
                                  aligned_ptr_ |-> calculate_aligned_pointer(addr, alignment),
                                  size_ |-> size, alignment_ |-> alignment]]
                   /\ abLast' = [op |-> "construct", slot |-> slot, size |-> size,
                                 alignment |-> alignment, outcome |-> "ok",
                                 regions |-> Len(heap)]
    /\ UNCHANGED <<alignVars, wsVars, runVars>>

\* AlignedBuffer::AlignedBuffer(size, alignment): the three checks, each throwing
\* MemoryError; then make_unique<uint8_t[]>(size + alignment), which throws
\* std::bad_alloc or returns a block; then calculate_aligned_pointer() and
\* initialize_pattern().  A constructor that throws leaves no object.
AlignedBuffer(slot, size, alignment) ==
    /\ objs[slot].state = "none"
    /\ IF \/ size = U(0)
          \/ ~is_power_of_two(alignment)
          \/ Lt(Sub(SIZE_MAX, alignment), size)
       THEN /\ abLast' = [op |-> "construct", slot |-> slot, size |-> size,
                          alignment |-> alignment, outcome |-> "MemoryError",
                          regions |-> Len(heap)]
            /\ UNCHANGED <<objs, heap>>
       ELSE LET total_size == Add(size, alignment)
            IN  \/ /\ abLast' = [op |-> "construct", slot |-> slot, size |-> size,
                                 alignment |-> alignment, outcome |-> "bad_alloc",
                                 regions |-> Len(heap)]
                   /\ UNCHANGED <<objs, heap>>
                \/ /\ Len(heap) < MaxRegions
                   /\ \E addr \in RawAddrs :
                          /\ MayAllocate(heap, addr, total_size)
                          /\ heap' = Append(heap, [addr |-> addr, total |-> total_size,
                                                   released |-> 0])
                          /\ objs' = [objs EXCEPT ![slot] =
                                 [state |-> "live", raw_buffer_ |-> Len(heap) + 1,
                                  aligned_ptr_ |-> calculate_aligned_pointer(addr, alignment),
                                  size_ |-> size, alignment_ |-> alignment]]
                   /\ abLast' = [op |-> "construct", slot |-> slot, size |-> size,
                                 alignment |-> alignment, outcome |-> "ok",
                                 regions |-> Len(heap)]
    /\ UNCHANGED <<alignVars, wsVars, runVars>>

\* The fields a moved-from buffer is left with.
MovedFrom(o) ==
    [o EXCEPT !.raw_buffer_ = NoRegion, !.aligned_ptr_ = NullPtr,
              !.size_ = U(0), !.alignment_ = U(0)]

\* AlignedBuffer(AlignedBuffer&& other): a new object takes other's fields.
MoveConstruct(slot, other) ==
    /\ objs[slot].state = "none"
    /\ objs[other].state = "live"
    /\ objs' = [objs EXCEPT ![slot] = objs[other], ![other] = MovedFrom(objs[other])]
    /\ abLast' = [op |-> "move", dst |-> slot, src |-> other,
                  dstBefore |-> objs[slot], srcBefore |-> objs[other]]
    /\ UNCHANGED <<heap, alignVars, wsVars, runVars>>

\* operator=(AlignedBuffer&&) without the this != &other test: the fields are
\* copied onto themselves and then cleared; the unique_ptr keeps its block.
MoveAssign_no_self_test(slot, other) ==
    /\ objs[slot].state = "live"
    /\ objs[other].state = "live"
    /\ IF slot = other
       THEN /\ objs' = [objs EXCEPT ![slot] =
                   [MovedFrom(objs[slot]) EXCEPT !.raw_buffer_ = objs[slot].raw_buffer_]]
            /\ UNCHANGED heap
       ELSE /\ heap' = Release(heap, objs[slot].raw_buffer_)
            /\ objs' = [objs EXCEPT ![slot] = objs[other],
                                    ![other] = MovedFrom(objs[other])]
    /\ abLast' = [op |-> "move", dst |-> slot, src |-> other,
                  dstBefore |-> objs[slot], srcBefore |-> objs[other]]
    /\ UNCHANGED <<alignVars, wsVars, runVars>>

\* operator=(AlignedBuffer&& other): nothing when this == &other; otherwise the
\* unique_ptr assignment deletes the block this owned and takes other's.
MoveAssign(slot, other) ==
    /\ objs[slot].state = "live"
    /\ objs[other].state = "live"
    /\ IF slot # other
       THEN /\ heap' = Release(heap, objs[slot].raw_buffer_)
            /\ objs' = [objs EXCEPT ![slot] = objs[other],
                                    ![other] = MovedFrom(objs[other])]
       ELSE UNCHANGED <<objs, heap>>
    /\ abLast' = [op |-> "move", dst |-> slot, src |-> other,
                  dstBefore |-> objs[slot], srcBefore |-> objs[other]]
    /\ UNCHANGED <<alignVars, wsVars, runVars>>

\* ~AlignedBuffer() = default: the unique_ptr deletes the block it owns.
Destroy(slot) ==
    /\ objs[slot].state = "live"
    /\ heap' = Release(heap, objs[slot].raw_buffer_)
    /\ objs' = [objs EXCEPT ![slot] = Destroyed]
    /\ abLast' = [op |-> "destroy", slot |-> slot]
    /\ UNCHANGED <<alignVars, wsVars, runVars>>

BufInit ==
    /\ objs = [s \in Slots |-> NoObject]
    /\ heap = <<>>
    /\ abLast = Idle
    /\ al = Idle
    /\ wsIn = Idle /\ wsOut = Idle
    /\ tester = Idle /\ stop_flag = FALSE /\ run = Idle /\ workers = <<>>
    /\ thread_results = <<>> /\ lastStats = Idle

\* Objects are declared in slot order: a new object takes the first unused slot.
FirstFree(slot) == \A s \in Slots : objs[s].state = "none" => slot <= s

BufConstruct == \E slot \in Slots, size \in BufferSizes, alignment \in Alignments :
                    FirstFree(slot) /\ AlignedBuffer(slot, size, alignment)
BufMoveConstruct == \E slot \in Slots, other \in Slots :
                        FirstFree(slot) /\ MoveConstruct(slot, other)
BufMoveAssign == \E slot \in Slots, other \in Slots : MoveAssign(slot, other)
BufDestroy == \E slot \in Slots : Destroy(slot)

BufNext == BufConstruct \/ BufMoveConstruct \/ BufMoveAssign \/ BufDestroy

\* Constructions, moves and destructions of AlignedBuffer objects.
SpecBuf == BufInit /\ [][BufNext]_vars

\* x mod d by division, for a divisor 0 < d < 2^14 held in a size_t
ModSize(x, d) == Sub(x, Mul(Div(x, Val(d)), Val(d)))

\* n is 2^k for some k: halving n reaches 1 through even values only.
RECURSIVE PowerOfTwo(_)
PowerOfTwo(n) ==
    IF n = U(0) THEN FALSE
    ELSE IF n = U(1) THEN TRUE
    ELSE n[1] % 2 = 0 /\ PowerOfTwo(Div(n, 2))

\* C3: the data address of every constructed AlignedBuffer is a multiple of its
\* alignment and is_aligned() is true, for as long as the object lives: also
\* for the buffer a move went into, and for the buffer it left (null, alignment 0).
C3_Aligned ==
    \A s \in Slots :
        objs[s].state = "live" =>
            /\ is_aligned(objs[s])
            /\ objs[s].alignment_ # U(0)
                   => ModSize(objs[s].aligned_ptr_, objs[s].alignment_) = U(0)
            /\ objs[s].alignment_ = U(0) => objs[s].aligned_ptr_ = NullPtr

\* C3 witness: a buffer that received, by a move, a pointer that the constructor
\* had to round up from the raw address to a 128-byte boundary.
C3_Witness ==
    /\ abLast.op = "move"
    /\ abLast.dst # abLast.src
    /\ objs[abLast.dst].alignment_ = U(128)
    /\ objs[abLast.dst].raw_buffer_ # NoRegion
    /\ heap[objs[abLast.dst].raw_buffer_].addr # objs[abLast.dst].aligned_ptr_

\* The (size, alignment) pairs the constructor must refuse.
Refused(size, alignment) ==
    \/ size = U(0)
    \/ ~PowerOfTwo(alignment)
    \/ Lt(Add(size, alignment), size)

Owners(r) == {s \in Slots : objs[s].state = "live" /\ objs[s].raw_buffer_ = r}

\* C5: after a move from S into a different D, D holds the pointer, size and
\* alignment S had and S is empty; a self move-assignment changes nothing; and
\* every region is owned by exactly one buffer until it is released, once.
C5_MoveAndOwnership ==
    /\ abLast.op = "move" =>
           IF abLast.dst # abLast.src
           THEN /\ objs[abLast.dst] = abLast.srcBefore
                /\ objs[abLast.src].state = "live"
                /\ objs[abLast.src].aligned_ptr_ = NullPtr
                /\ objs[abLast.src].size_ = U(0)
                /\ objs[abLast.src].raw_buffer_ = NoRegion
           ELSE objs[abLast.dst] = abLast.dstBefore
    /\ \A r \in 1..Len(heap) :
           /\ heap[r].released <= 1
           /\ Cardinality(Owners(r)) = (IF heap[r].released = 0 THEN 1 ELSE 0)

\* C5 witness: a move assignment between two buffers that both owned a region:
\* the destination's old region is released and the source's has moved over.
C5_Witness ==
    /\ abLast.op = "move"
    /\ abLast.dst # abLast.src
    /\ abLast.dstBefore.state = "live"
    /\ abLast.dstBefore.raw_buffer_ # NoRegion
    /\ abLast.srcBefore.raw_buffer_ # NoRegion
    /\ heap[abLast.dstBefore.raw_buffer_].released = 1
    /\ Owners(abLast.srcBefore.raw_buffer_) = {abLast.dst}

(***************************************************************************)
(* Calls of the rounding helpers on arbitrary offsets                      *)
(***************************************************************************)
\* Offsets and line sizes the helpers are called with: values around line
\* boundaries, and values near the top of the size_t range.
AlignOffsets ==
    {U(0), U(1), U(10), U(63), U(64), U(65), U(100), U(127), U(128), U(200),
     U(4096), U(4100), Sub(SIZE_MAX, U(127)), Sub(SIZE_MAX, U(63)),
     Sub(SIZE_MAX, U(10)), SIZE_MAX}

AlignLineSizes == {U(0), U(1), U(2), U(3), U(8), U(48), U(64), U(128), U(1024)}

AlignInit ==
    /\ \E s \in AlignOffsets, e \in AlignOffsets, L \in AlignLineSizes :
           al = [pc |-> "call", start_offset |-> s, end_offset |-> e,
                 cache_line_size |-> L]
    /\ objs = <<>> /\ heap = <<>> /\ abLast = Idle
    /\ wsIn = Idle /\ wsOut = Idle
    /\ tester = Idle /\ stop_flag = FALSE /\ run = Idle /\ workers = <<>>
    /\ thread_results = <<>> /\ lastStats = Idle

\* first = align_to_cache_lines(s, e, L);
\* size = calculate_working_set_size(first.first, first.second)
AlignOnce ==
    /\ al.pc = "call"
    /\ LET first == align_to_cache_lines(al.start_offset, al.end_offset,
                                         al.cache_line_size)
       IN  al' = [al EXCEPT !.pc = "once"] @@
                 [first |-> first,
                  size |-> calculate_working_set_size(first[1], first[2])]
    /\ UNCHANGED <<bufVars, wsVars, runVars>>

\* second = align_to_cache_lines(first.first, first.second, L)
AlignTwice ==
    /\ al.pc = "once"
    /\ al' = [al EXCEPT !.pc = "twice"] @@
             [second |-> align_to_cache_lines(al.first[1], al.first[2],
                                              al.cache_line_size)]
    /\ UNCHANGED <<bufVars, wsVars, runVars>>

AlignNext == AlignOnce \/ AlignTwice

\* The rounding helpers called once and then again on their own result.
SpecAlign ==
    AlignInit /\ [][AlignNext]_vars

\* is_power_of_two, on a line size
IsPowerOfTwoSize(n) == n # U(0) /\ And(n, Sub(n, U(1))) = U(0)

\* start_offset + cache_line_size - 1 stays within size_t
StartSumFits(s, L) ==
    IF L = U(0) THEN s # U(0) ELSE Le(s, Sub(SIZE_MAX, Sub(L, U(1))))

\* C6: cache-line rounding is idempotent: when start_offset + cache_line_size - 1
\* does not overflow, rounding the pair returned for (s, e, L) again with the
\* same L returns that same pair.
C6_Idempotent ==
    (al.pc = "twice" /\ StartSumFits(al.start_offset, al.cache_line_size))
        => al.second = al.first

\* C6 witness: a second rounding of a pair whose first rounding moved both ends.
C6_Witness ==
    /\ al.pc = "twice"
    /\ StartSumFits(al.start_offset, al.cache_line_size)
    /\ al.first[1] # al.start_offset
    /\ al.first[2] # al.end_offset
    /\ Lt(al.first[1], al.first[2])

\* The end is rounded down to the largest multiple of L that is <= end, and the
\* working-set size is 0 for an empty pair and the difference otherwise.
EndAndSizeRounded ==
    LET L == al.cache_line_size
        ae == al.first[2]
        as == al.first[1]
    IN  /\ ModSize(ae, L) = U(0)
        /\ Le(ae, al.end_offset)
        /\ Lt(Sub(al.end_offset, ae), L)
        /\ al.size = (IF Le(ae, as) THEN U(0) ELSE Sub(ae, as))

\* The start is rounded up to the smallest multiple of L that is >= start.
StartRounded ==
    LET L == al.cache_line_size
        as == al.first[1]
    IN  /\ ModSize(as, L) = U(0)
        /\ Le(al.start_offset, as)
        /\ Lt(Sub(as, al.start_offset), L)

\* C7 as stated: for every power-of-two L and all offsets, aligned_start is the
\* smallest multiple of L >= start, aligned_end the largest multiple of L <= end,
\* and calculate_working_set_size is 0 when aligned_end <= aligned_start and the
\* difference otherwise.
C7_AllOffsets ==
    (al.pc = "once" /\ IsPowerOfTwoSize(al.cache_line_size))
        => (StartRounded /\ EndAndSizeRounded)

\* C7 amended: the same, the statement about aligned_start holding for the
\* offsets with start + L - 1 <= SIZE_MAX (above them the sum wraps around and
\* aligned_start is 0).
C7_Rounding ==
    (al.pc = "once" /\ IsPowerOfTwoSize(al.cache_line_size))
        => /\ EndAndSizeRounded
           /\ StartSumFits(al.start_offset, al.cache_line_size) => StartRounded
           /\ ~StartSumFits(al.start_offset, al.cache_line_size)
                  => al.first[1] = U(0)

\* C7 witness: a power-of-two line size, a start moved up and an end moved down
\* to a non-empty range.
C7_Witness ==
    /\ al.pc = "once"
    /\ IsPowerOfTwoSize(al.cache_line_size)
    /\ Lt(al.start_offset, al.first[1])
    /\ Lt(al.first[2], al.end_offset)
    /\ al.size # U(0)

(***************************************************************************)
(* WorkingSetSizes                                                         *)
(***************************************************************************)
KB == U(1024)
MB == Mul(KB, 1024)
GB == Mul(MB, 1024)

MIN_WORKING_SET_SIZE == Mul(U(4), 1024)
MAX_WORKING_SET_SIZE == Mul(Mul(Mul(U(4), 1024), 1024), 1024)

WORKING_SET_FRACTIONS == <<8, 4, 2, 1>>
WORKING_SET_MULTIPLIERS == <<2, 4, 8>>
STANDARD_WORKING_SETS ==
    <<Mul(MB, 64), Mul(MB, 128), Mul(MB, 256), Mul(MB, 512),
      Mul(GB, 1), Mul(GB, 2), Mul(GB, 4)>>

RECURSIVE EraseLoop(_, _, _, _)
\* The while loop of the constructor: it_size and it_desc walk the two vectors
\* together; erase() removes the element and leaves the iterator in place.
EraseLoop(sizes, descriptions, it_size, it_desc) ==
    IF it_size > Len(sizes) THEN [sizes |-> sizes, descriptions |-> descriptions]
    ELSE IF Lt(sizes[it_size], MIN_WORKING_SET_SIZE)
            \/ Lt(MAX_WORKING_SET_SIZE, sizes[it_size])
         THEN EraseLoop(SubSeq(sizes, 1, it_size - 1)
                            \o SubSeq(sizes, it_size + 1, Len(sizes)),
                        SubSeq(descriptions, 1, it_desc - 1)
                            \o SubSeq(descriptions, it_desc + 1, Len(descriptions)),
                        it_size, it_desc)
         ELSE EraseLoop(sizes, descriptions, it_size + 1, it_desc + 1)

RECURSIVE EraseSizesOnly(_, _, _, _)
EraseSizesOnly(sizes, descriptions, it_size, it_desc) ==
    IF it_size > Len(sizes) THEN [sizes |-> sizes, descriptions |-> descriptions]
    ELSE IF Lt(sizes[it_size], MIN_WORKING_SET_SIZE)
            \/ Lt(MAX_WORKING_SET_SIZE, sizes[it_size])
         THEN EraseSizesOnly(SubSeq(sizes, 1, it_size - 1)
                                 \o SubSeq(sizes, it_size + 1, Len(sizes)),
                             descriptions, it_size, it_desc + 1)
         ELSE EraseSizesOnly(sizes, descriptions, it_size + 1, it_desc + 1)

\* The filter erasing the size but stepping over its description
FilterOutOfBounds_keep_description(sizes, descriptions) ==
    EraseSizesOnly(sizes, descriptions, 1, 1)

\* "Filter out sizes that are too small or too large"
FilterOutOfBounds(sizes, descriptions) == EraseLoop(sizes, descriptions, 1, 1)

\* WorkingSetSizes::WorkingSetSizes(cache_info)
WorkingSetSizes(cache_info) ==
    LET l1_sizes == <<Div(cache_info.l1_data_size, 8), Div(cache_info.l1_data_size, 4),
                      Div(cache_info.l1_data_size, 2), cache_info.l1_data_size>>
        l1_descriptions == <<"1/8 L1 cache", "1/4 L1 cache", "1/2 L1 cache",
                             "Full L1 cache">>
        l2_sizes == <<Div(cache_info.l2_size, 8), Div(cache_info.l2_size, 4),
                      Div(cache_info.l2_size, 2), cache_info.l2_size>>
        l2_descriptions == <<"1/8 L2 cache", "1/4 L2 cache", "1/2 L2 cache",
                             "Full L2 cache">>
        l3_sizes == <<Div(cache_info.l3_size, 8), Div(cache_info.l3_size, 4),
                      Div(cache_info.l3_size, 2), cache_info.l3_size>>
        l3_descriptions == <<"1/8 SLC", "1/4 SLC", "1/2 SLC", "Full SLC">>
        beyond_cache_sizes ==
            <<Mul(cache_info.l3_size, WORKING_SET_MULTIPLIERS[1]),
              Mul(cache_info.l3_size, WORKING_SET_MULTIPLIERS[2]),
              Mul(cache_info.l3_size, WORKING_SET_MULTIPLIERS[3]),
              STANDARD_WORKING_SETS[1], STANDARD_WORKING_SETS[2],
              STANDARD_WORKING_SETS[3], STANDARD_WORKING_SETS[4],
              STANDARD_WORKING_SETS[5], STANDARD_WORKING_SETS[6],
              STANDARD_WORKING_SETS[7]>>
        beyond_descriptions == <<"2x SLC", "4x SLC", "8x SLC", "64MB", "128MB",
                                 "256MB", "512MB", "1GB", "2GB", "4GB">>
    IN  FilterOutOfBounds(l1_sizes \o l2_sizes \o l3_sizes \o beyond_cache_sizes,
                          l1_descriptions \o l2_descriptions \o l3_descriptions
                              \o beyond_descriptions)

\* push_back of the size without the push_back of its description
PushIf_size_only(acc, cond, size, description) ==
    IF cond THEN [sizes |-> Append(acc.sizes, size), descriptions |-> acc.descriptions]
    ELSE acc

\* push_back of one tier entry when its size reaches min_size
PushIf(acc, cond, size, description) ==
    IF cond THEN [sizes |-> Append(acc.sizes, size),
                  descriptions |-> Append(acc.descriptions, description)]
    ELSE acc

\* The three entries of one cache tier: 1/4, 1/2 and the whole per-thread size.
TierEntries(acc, per_thread, name) ==
    LET min_size == MIN_WORKING_SET_SIZE
        a == PushIf(acc, Le(min_size, Div(per_thread, WORKING_SET_FRACTIONS[2])),
                    Div(per_thread, 4), "1/4 " \o name)
        b == PushIf(a, Le(min_size, Div(per_thread, WORKING_SET_FRACTIONS[3])),
                    Div(per_thread, 2), "1/2 " \o name)
    IN  PushIf(b, Le(min_size, per_thread), per_thread, name)

RECURSIVE BeyondLoop(_, _, _, _)
\* for(size_t size : beyond_cache_sizes): the size is pushed when in bounds, and
\* its description when one of the comparisons matches.
BeyondLoop(acc, beyond_cache_sizes, i, cache_info) ==
    IF i > Len(beyond_cache_sizes) THEN acc
    ELSE LET size == beyond_cache_sizes[i]
             descriptions ==
                 IF size = Mul(cache_info.l3_size, 2) THEN <<"2x SLC">>
                 ELSE IF size = Mul(cache_info.l3_size, 4) THEN <<"4x SLC">>
                 ELSE IF size = U(64 * 1024 * 1024) THEN <<"64MB">>
                 ELSE IF size = U(256 * 1024 * 1024) THEN <<"256MB">>
                 ELSE IF size = U(1024 * 1024 * 1024) THEN <<"1GB">>
                 ELSE IF size = Mul(Mul(U(2048), 1024), 1024) THEN <<"2GB">>
                 ELSE IF size = Mul(Mul(U(4096), 1024), 1024) THEN <<"4GB">>
                 ELSE <<>>
         IN  IF Le(MIN_WORKING_SET_SIZE, size) /\ Le(size, MAX_WORKING_SET_SIZE)
             THEN BeyondLoop([sizes |-> Append(acc.sizes, size),
                              descriptions |-> acc.descriptions \o descriptions],
                             beyond_cache_sizes, i + 1, cache_info)
             ELSE BeyondLoop(acc, beyond_cache_sizes, i + 1, cache_info)

\* The thread-aware generator with the L2 size divided among the threads
get_thread_aware_sizes_split_l2(cache_info, num_threads) ==
    LET l1_per_thread == cache_info.l1_data_size
        l2_per_thread == Div(cache_info.l2_size, num_threads)
        l3_per_thread == Div(cache_info.l3_size, num_threads)
        l1 == TierEntries([sizes |-> <<>>, descriptions |-> <<>>], l1_per_thread,
                          "L1 per thread")
        l2 == TierEntries(l1, l2_per_thread, "L2 per thread")
        l3 == TierEntries(l2, l3_per_thread, "SLC per thread")
        beyond_cache_sizes ==
            <<Mul(cache_info.l3_size, WORKING_SET_MULTIPLIERS[1]),
              Mul(cache_info.l3_size, WORKING_SET_MULTIPLIERS[2]),
              STANDARD_WORKING_SETS[1], STANDARD_WORKING_SETS[3],
              STANDARD_WORKING_SETS[5], STANDARD_WORKING_SETS[6],
              STANDARD_WORKING_SETS[7]>>
    IN  BeyondLoop(l3, beyond_cache_sizes, 1, cache_info)

\* WorkingSetSizes::get_thread_aware_sizes(cache_info, num_threads)
get_thread_aware_sizes(cache_info, num_threads) ==
    LET l1_per_thread == cache_info.l1_data_size
        l2_per_thread == cache_info.l2_size
        l3_per_thread == Div(cache_info.l3_size, num_threads)
        l1 == TierEntries([sizes |-> <<>>, descriptions |-> <<>>], l1_per_thread,
                          "L1 per thread")
        l2 == TierEntries(l1, l2_per_thread, "L2 per thread")
        l3 == TierEntries(l2, l3_per_thread, "SLC per thread")
        beyond_cache_sizes ==
            <<Mul(cache_info.l3_size, WORKING_SET_MULTIPLIERS[1]),
              Mul(cache_info.l3_size, WORKING_SET_MULTIPLIERS[2]),
              STANDARD_WORKING_SETS[1], STANDARD_WORKING_SETS[3],
              STANDARD_WORKING_SETS[5], STANDARD_WORKING_SETS[6],
              STANDARD_WORKING_SETS[7]>>
    IN  BeyondLoop(l3, beyond_cache_sizes, 1, cache_info)

\* Cache sizes of the modelled hierarchies: none, below the minimum, typical
\* L1/L2/L3 sizes, above the maximum, and one whose multiples wrap around.
MaxWsThreads == 3
CacheSizes ==
    {U(0), U(512), Mul(KB, 32), Mul(MB, 4), Mul(MB, 32), Add(Mul(GB, 4), U(8)),
     Add(Mul(Mul(GB, 8192), 8192), Mul(GB, 32)), Add(Mul(Mul(Mul(GB, 8192), 8192), 32), KB)}

WsInit ==
    /\ \E l1 \in CacheSizes, l2 \in CacheSizes, l3 \in CacheSizes,
          n \in 1..MaxWsThreads :
           wsIn = [pc |-> "call", num_threads |-> n,
                   cache_info |-> [l1_data_size |-> l1, l2_size |-> l2,
                                   l3_size |-> l3]]
    /\ wsOut = Idle
    /\ al = Idle
    /\ objs = <<>> /\ heap = <<>> /\ abLast = Idle
    /\ tester = Idle /\ stop_flag = FALSE /\ run = Idle /\ workers = <<>>
    /\ thread_results = <<>> /\ lastStats = Idle

\* WorkingSetSizes working_sets(cache_info)
WsConstruct ==
    /\ wsIn.pc = "call"
    /\ wsOut.pc = "idle"
    /\ wsOut' = [pc |-> "done", op |-> "constructor"] @@ WorkingSetSizes(wsIn.cache_info)
    /\ UNCHANGED <<wsIn, alignVars, bufVars, runVars>>

\* auto [sizes, descriptions] = get_thread_aware_sizes(cache_info, num_threads)
WsThreadAware ==
    /\ wsIn.pc = "call"
    /\ wsOut.pc = "idle"
    /\ wsOut' = [pc |-> "done", op |-> "thread_aware"]
                    @@ get_thread_aware_sizes(wsIn.cache_info, wsIn.num_threads)
    /\ UNCHANGED <<wsIn, alignVars, bufVars, runVars>>

WsNext == WsConstruct \/ WsThreadAware

\* The two working-set generators on arbitrary cache descriptions.
SpecWS == WsInit /\ [][WsNext]_vars

InBounds(size) == Le(MIN_WORKING_SET_SIZE, size) /\ Le(size, MAX_WORKING_SET_SIZE)

\* C9: every size built by the WorkingSetSizes constructor and every size
\* returned by get_thread_aware_sizes lies in [MIN_WORKING_SET_SIZE,
\* MAX_WORKING_SET_SIZE], for every cache description and thread count >= 1.
C9_AllSizesInBounds ==
    wsOut.pc = "done" => \A i \in 1..Len(wsOut.sizes) : InBounds(wsOut.sizes[i])

\* The candidate list of the constructor, as <<size, label>> pairs.
Candidates(c) ==
    <<  <<Div(c.l1_data_size, 8), "1/8 L1 cache">>, <<Div(c.l1_data_size, 4), "1/4 L1 cache">>,
        <<Div(c.l1_data_size, 2), "1/2 L1 cache">>, <<c.l1_data_size, "Full L1 cache">>,
        <<Div(c.l2_size, 8), "1/8 L2 cache">>, <<Div(c.l2_size, 4), "1/4 L2 cache">>,
        <<Div(c.l2_size, 2), "1/2 L2 cache">>, <<c.l2_size, "Full L2 cache">>,
        <<Div(c.l3_size, 8), "1/8 SLC">>, <<Div(c.l3_size, 4), "1/4 SLC">>,
        <<Div(c.l3_size, 2), "1/2 SLC">>, <<c.l3_size, "Full SLC">>,
        <<Mul(c.l3_size, 2), "2x SLC">>, <<Mul(c.l3_size, 4), "4x SLC">>,
        <<Mul(c.l3_size, 8), "8x SLC">>,
        <<Mul(MB, 64), "64MB">>, <<Mul(MB, 128), "128MB">>, <<Mul(MB, 256), "256MB">>,
        <<Mul(MB, 512), "512MB">>, <<GB, "1GB">>, <<Mul(GB, 2), "2GB">>,
        <<Mul(GB, 4), "4GB">>  >>

PairInBounds(p) == InBounds(p[1])

\* C10: the constructor's list is the candidate sequence with exactly the
\* out-of-bounds entries removed: the survivors keep their order and each
\* surviving size keeps its label.
C10_FilteredCandidates ==
    (wsOut.pc = "done" /\ wsOut.op = "constructor") =>
        /\ Len(wsOut.descriptions) = Len(wsOut.sizes)
        /\ [i \in 1..Len(wsOut.sizes) |-> <<wsOut.sizes[i], wsOut.descriptions[i]>>]
               = SelectSeq(Candidates(wsIn.cache_info), PairInBounds)

\* C10 witness: a constructor run that kept entries of all four blocks and
\* dropped entries from the middle of the candidate sequence (the whole shared
\* cache and its multiples).
C10_Witness ==
    /\ wsOut.pc = "done" /\ wsOut.op = "constructor"
    /\ Len(wsOut.sizes) < 22
    /\ wsOut.descriptions[1] = "1/8 L1 cache"
    /\ \E i \in 1..Len(wsOut.sizes) : wsOut.descriptions[i] = "1/4 L2 cache"
    /\ \E i \in 1..Len(wsOut.sizes) : wsOut.descriptions[i] = "1/2 SLC"
    /\ \A i \in 1..Len(wsOut.sizes) :
           wsOut.descriptions[i] \notin {"Full SLC", "2x SLC", "4x SLC", "8x SLC"}
    /\ wsOut.descriptions[Len(wsOut.sizes)] = "4GB"

(***************************************************************************)
(* PerformanceStats and calculate_stats                                    *)
(*                                                                         *)
(* A double is the exact quotient <<numerator, denominator>>; times are    *)
(* counted in nanoseconds, so time_seconds * 1e9 is the stored time.       *)
(***************************************************************************)
DEFAULT_CACHE_LINE_SIZE == 64
CACHE_LINE_ELEMENTS_UINT64 == 8
SizeofUint64 == 8
SizeofDouble == 8
MIN_BUFFER_SIZE == 4 * 1024
MAX_REALISTIC_BANDWIDTH_GBPS == 60

\* {0.0, 0.0, 0, 0.0}
ZeroStats ==
    [bandwidth_gbps |-> <<0, 1>>, latency_ns |-> <<0, 1>>, bytes_processed |-> 0,
     time_seconds |-> 0]

\* n / d > k for d > 0, without forming k * d
Exceeds(n, d, k) == n \div k > d \/ (n \div k = d /\ n % k > 0)

\* calculate_stats without the ceiling on the bandwidth
calculate_stats_no_clamp(bytes_processed, time_seconds, operations) ==
    IF time_seconds > 0 /\ operations > 0
    THEN [bandwidth_gbps |-> <<bytes_processed, time_seconds>>,
          latency_ns |-> <<time_seconds, operations>>,
          bytes_processed |-> bytes_processed,
          time_seconds |-> time_seconds]
    ELSE [bandwidth_gbps |-> <<0, 1>>, latency_ns |-> <<0, 1>>,
          bytes_processed |-> bytes_processed, time_seconds |-> time_seconds]

calculate_stats(bytes_processed, time_seconds, operations) ==
    IF time_seconds > 0 /\ operations > 0
    THEN [bandwidth_gbps |->
              IF Exceeds(bytes_processed, time_seconds, MAX_REALISTIC_BANDWIDTH_GBPS)
              THEN <<MAX_REALISTIC_BANDWIDTH_GBPS, 1>>
              ELSE <<bytes_processed, time_seconds>>,
          latency_ns |-> <<time_seconds, operations>>,
          bytes_processed |-> bytes_processed,
          time_seconds |-> time_seconds]
    ELSE [bandwidth_gbps |-> <<0, 1>>, latency_ns |-> <<0, 1>>,
          bytes_processed |-> bytes_processed, time_seconds |-> time_seconds]

(***************************************************************************)
(* StandardTests: the access kernels                                       *)
(***************************************************************************)
Kernels == {"SEQUENTIAL_READ", "SEQUENTIAL_WRITE", "RANDOM_READ", "RANDOM_WRITE",
            "COPY", "TRIAD"}
TestPatterns == Kernels \cup {"MATRIX_MULTIPLY"}

\* x & ~(a - 1) taken one granule too far
RoundDown_to_next(x, a) == Val(And(Add(U(x), U(a - 1)), Not(U(a - 1)))) + a

\* (x + a - 1) & ~(a - 1) and x & ~(a - 1), on offsets below 2^31
RoundUp(x, a) == Val(And(Add(U(x), U(a - 1)), Not(U(a - 1))))
RoundDown(x, a) == Val(And(U(x), Not(U(a - 1))))

\* The rounding that widens the range: the start rounded down, the end up
KernelRange_round_out(pattern, start_offset, end_offset) ==
    IF pattern = "TRIAD"
    THEN <<RoundDown(start_offset, SizeofDouble), RoundUp(end_offset, SizeofDouble)>>
    ELSE <<RoundDown(start_offset, DEFAULT_CACHE_LINE_SIZE),
           RoundUp(end_offset, DEFAULT_CACHE_LINE_SIZE)>>

\* The aligned_start and aligned_end a kernel computes on entry.
KernelRange(pattern, start_offset, end_offset) ==
    IF pattern = "SEQUENTIAL_READ"
    THEN <<RoundUp(start_offset, DEFAULT_CACHE_LINE_SIZE),
           RoundDown(end_offset, DEFAULT_CACHE_LINE_SIZE)>>
    ELSE IF pattern = "TRIAD"
    THEN <<RoundUp(start_offset, SizeofDouble), RoundDown(end_offset, SizeofDouble)>>
    ELSE LET r == align_to_cache_lines(U(start_offset), U(end_offset),
                                       U(DEFAULT_CACHE_LINE_SIZE))
         IN  <<Val(r[1]), Val(r[2])>>

\* The test that lets an empty range of one aligned element through
RangeCollapsed_strict(aligned_start, aligned_end) == aligned_end < aligned_start

\* if (aligned_end <= aligned_start) return {0.0, 0.0, 0, 0.0};
RangeCollapsed(aligned_start, aligned_end) == aligned_end <= aligned_start

\* cache_line_indices.size() in random_access_test: one index for every addr
\* from aligned_start in steps of one cache line while addr < aligned_end.
\* std::shuffle permutes the order of the visits, not the lines visited.
CacheLineCount(aligned_start, aligned_end) ==
    (aligned_end - aligned_start + DEFAULT_CACHE_LINE_SIZE - 1)
        \div DEFAULT_CACHE_LINE_SIZE

\* A byte range [lo, hi) of buffer aligned_buffers[b - 1]; none when empty.
Bytes(b, lo, hi) == IF lo < hi THEN {<<b, lo, hi>>} ELSE {}

\* The elements one iteration of a sequential kernel visits: the full chunks of
\* 8 words, then the remaining words.
WordLoops(b, aligned_start, working_set_size) ==
    LET num_elements == working_set_size \div SizeofUint64
        full_chunks == num_elements \div CACHE_LINE_ELEMENTS_UINT64
        chunk_end == aligned_start
                         + full_chunks * CACHE_LINE_ELEMENTS_UINT64 * SizeofUint64
    IN  Bytes(b, aligned_start, chunk_end)
            \cup Bytes(b, chunk_end, aligned_start + num_elements * SizeofUint64)

\* The bytes one iteration of a kernel reads and writes.
IterationReads(pattern, aligned_start, aligned_end) ==
    LET working_set_size == aligned_end - aligned_start
    IN  CASE pattern = "SEQUENTIAL_READ" -> WordLoops(1, aligned_start, working_set_size)
          [] pattern = "RANDOM_READ" ->
                 \* every line of cache_line_indices, 8 words each: together the
                 \* bytes from aligned_start to the end of the last line
                 Bytes(1, aligned_start,
                       aligned_start + CacheLineCount(aligned_start, aligned_end)
                                           * CACHE_LINE_ELEMENTS_UINT64 * SizeofUint64)
          [] pattern = "COPY" -> Bytes(1, aligned_start, aligned_start + working_set_size)
          [] pattern = "TRIAD" ->
                 LET num_elements == working_set_size \div SizeofDouble
                 IN  Bytes(2, aligned_start, aligned_start + num_elements * SizeofDouble)
                         \cup Bytes(3, aligned_start,
                                    aligned_start + num_elements * SizeofDouble)
          [] OTHER -> {}

IterationWrites(pattern, aligned_start, aligned_end) ==
    LET working_set_size == aligned_end - aligned_start
    IN  CASE pattern = "SEQUENTIAL_WRITE" -> WordLoops(1, aligned_start, working_set_size)
          [] pattern = "RANDOM_WRITE" ->
                 \* every line of cache_line_indices, 8 words each: together the
                 \* bytes from aligned_start to the end of the last line
                 Bytes(1, aligned_start,
                       aligned_start + CacheLineCount(aligned_start, aligned_end)
                                           * CACHE_LINE_ELEMENTS_UINT64 * SizeofUint64)
          [] pattern = "COPY" -> Bytes(2, aligned_start, aligned_start + working_set_size)
          [] pattern = "TRIAD" ->
                 LET num_elements == working_set_size \div SizeofDouble
                 IN  Bytes(1, aligned_start, aligned_start + num_elements * SizeofDouble)
          [] OTHER -> {}

\* The statistics of a copy kernel that counts only the bytes written
KernelStats_copy_once(pattern, aligned_start, aligned_end, iterations, time_seconds) ==
    LET working_set_size == aligned_end - aligned_start
        lines == CacheLineCount(aligned_start, aligned_end)
    IN  CASE pattern \in {"SEQUENTIAL_READ", "SEQUENTIAL_WRITE", "COPY"} ->
                 calculate_stats(working_set_size * iterations, time_seconds,
                                 (working_set_size \div DEFAULT_CACHE_LINE_SIZE) * iterations)
          [] pattern \in {"RANDOM_READ", "RANDOM_WRITE"} ->
                 calculate_stats(lines * DEFAULT_CACHE_LINE_SIZE * iterations,
                                 time_seconds, lines * iterations)
          [] pattern = "TRIAD" ->
                 calculate_stats(working_set_size * iterations * 3, time_seconds,
                                 (working_set_size \div SizeofDouble) * iterations)

\* The statistics a kernel returns after its loop: bytes_processed and
\* operations are computed from the requested iteration count.
KernelStats(pattern, aligned_start, aligned_end, iterations, time_seconds) ==
    LET working_set_size == aligned_end - aligned_start
        lines == CacheLineCount(aligned_start, aligned_end)
    IN  CASE pattern \in {"SEQUENTIAL_READ", "SEQUENTIAL_WRITE"} ->
                 calculate_stats(working_set_size * iterations, time_seconds,
                                 (working_set_size \div DEFAULT_CACHE_LINE_SIZE) * iterations)
          [] pattern \in {"RANDOM_READ", "RANDOM_WRITE"} ->
                 calculate_stats(lines * DEFAULT_CACHE_LINE_SIZE * iterations,
                                 time_seconds, lines * iterations)
          [] pattern = "COPY" ->
                 calculate_stats(working_set_size * iterations * 2, time_seconds,
                                 (working_set_size \div DEFAULT_CACHE_LINE_SIZE) * iterations)
          [] pattern = "TRIAD" ->
                 calculate_stats(working_set_size * iterations * 3, time_seconds,
                                 (working_set_size \div SizeofDouble) * iterations)

\* Nanoseconds between two readings of the clock around a kernel's loop.
Elapsed == {0, 100}

\* What the matrix multiplier hands back: the capability is external and its
\* record is not derived here.
MatrixResults ==
    {ZeroStats,
     [bandwidth_gbps |-> <<12582912, 1000>>, latency_ns |-> <<1, 1000>>,
      bytes_processed |-> 12582912, time_seconds |-> 1000]}

\* A thread that std::thread has not started yet, and one that is running.
Unspawned == [pc |-> "unspawned"]
Spawned(start_offset, end_offset) ==
    [pc |-> "spawned", start_offset |-> start_offset, end_offset |-> end_offset,
     aligned_start |-> 0, aligned_end |-> 0, iter |-> 0, reads |-> {}, writes |-> {}]

\* The buffers the pattern needs are there: COPY runs only with 2, TRIAD with 4.
HasBuffers(pattern) ==
    CASE pattern = "COPY" -> Len(tester.aligned_buffers) >= 2
      [] pattern = "TRIAD" -> Len(tester.aligned_buffers) >= 4
      [] OTHER -> TRUE

\* The thread's lambda up to the kernel's loop: set_thread_affinity (a request to
\* the platform, no state of its own here), the switch on the pattern, and the
\* kernel's rounding and empty-range return.
KernelEntry(i) ==
    /\ workers[i].pc = "spawned"
    /\ IF ~HasBuffers(run.pattern)
       THEN /\ workers' = [workers EXCEPT ![i].pc = "done"]
            /\ UNCHANGED thread_results
       ELSE IF run.pattern = "MATRIX_MULTIPLY"
       THEN /\ \E stats \in MatrixResults :
                   thread_results' = [thread_results EXCEPT ![i] = stats]
            /\ workers' = [workers EXCEPT ![i].pc = "done"]
       ELSE \E r \in {KernelRange(run.pattern, workers[i].start_offset,
                                  workers[i].end_offset)} :
                IF RangeCollapsed(r[1], r[2])
                THEN /\ thread_results' = [thread_results EXCEPT ![i] = ZeroStats]
                     /\ workers' = [workers EXCEPT ![i].pc = "done",
                                                   ![i].aligned_start = r[1],
                                                   ![i].aligned_end = r[2]]
                ELSE /\ workers' = [workers EXCEPT ![i].pc = "loop",
                                                   ![i].aligned_start = r[1],
                                                   ![i].aligned_end = r[2]]
                     /\ UNCHANGED thread_results
    /\ UNCHANGED <<tester, stop_flag, run, lastStats, alignVars, bufVars, wsVars>>

\* The loop test that does not look at the flag
KernelLoopTest_ignore_flag(i) ==
    /\ workers[i].pc = "loop"
    /\ workers' = [workers EXCEPT ![i].pc =
           IF workers[i].iter < run.iterations THEN "body" ELSE "timed"]
    /\ UNCHANGED <<tester, stop_flag, run, thread_results, lastStats,
                   alignVars, bufVars, wsVars>>

\* for(size_t iter = 0; iter < iterations && !stop_flag; ++iter): the test at the
\* head of the loop, which reads the flag.
KernelLoopTest(i) ==
    /\ workers[i].pc = "loop"
    /\ workers' = [workers EXCEPT ![i].pc =
           IF workers[i].iter < run.iterations /\ ~stop_flag THEN "body" ELSE "timed"]
    /\ UNCHANGED <<tester, stop_flag, run, thread_results, lastStats,
                   alignVars, bufVars, wsVars>>

\* One iteration of the loop body, its fence and ++iter.
KernelIteration(i) ==
    /\ workers[i].pc = "body"
    /\ workers' = [workers EXCEPT
           ![i].pc = "loop",
           ![i].iter = @ + 1,
           ![i].reads = @ \cup IterationReads(run.pattern, workers[i].aligned_start,
                                              workers[i].aligned_end),
           ![i].writes = @ \cup IterationWrites(run.pattern, workers[i].aligned_start,
                                                workers[i].aligned_end)]
    /\ UNCHANGED <<tester, stop_flag, run, thread_results, lastStats,
                   alignVars, bufVars, wsVars>>

\* end_time, the statistics and the return into thread_results[i].
KernelReturn(i) ==
    /\ workers[i].pc = "timed"
    /\ \E time_seconds \in Elapsed :
           thread_results' = [thread_results EXCEPT ![i] =
               KernelStats(run.pattern, workers[i].aligned_start,
                           workers[i].aligned_end, run.iterations, time_seconds)]
    /\ workers' = [workers EXCEPT ![i].pc = "done"]
    /\ UNCHANGED <<tester, stop_flag, run, lastStats, alignVars, bufVars, wsVars>>

(***************************************************************************)
(* MemoryBandwidthTester: allocate_buffers, cleanup_buffers, run_test      *)
(***************************************************************************)
MaxThreads == 3

\* calculate_buffer_size without the minimum buffer size
calculate_buffer_size_no_minimum(total_size, num_buffers, cache_line_size) ==
    IF total_size = U(0) \/ num_buffers = 0 THEN U(0)
    ELSE LET buffer_size == Div(total_size, num_buffers)
         IN  IF Lt(buffer_size, U(cache_line_size)) THEN U(0) ELSE buffer_size

\* calculate_buffer_size: 0 when the request cannot be served
calculate_buffer_size(total_size, num_buffers, cache_line_size) ==
    IF total_size = U(0) \/ num_buffers = 0 THEN U(0)
    ELSE LET buffer_size == Div(total_size, num_buffers)
         IN  IF \/ Lt(buffer_size, U(MIN_BUFFER_SIZE))
                \/ Lt(buffer_size, U(cache_line_size))
             THEN U(0) ELSE buffer_size

\* The AlignedBuffer that emplace_back(buffer_size, cache_line_size) builds on
\* the block operator new[] returned at addr.
EmplacedBuffer(addr, buffer_size, cache_line_size) ==
    [state |-> "live", addr |-> addr,
     aligned_ptr_ |-> calculate_aligned_pointer(addr, U(cache_line_size)),
     size_ |-> buffer_size, alignment_ |-> U(cache_line_size)]

\* Where the allocator puts the block of the j-th buffer of a call.
BlockSpacing == Mul(GB, 2)
RawOffsets == {16}

\* The cache line sizes detect_cache_line_size reports, the requests made of
\* allocate_buffers, and what current_buffer_size may hold before the first
\* allocation (the constructor leaves it uninitialised).
DetectedCacheLineSizes == {64, 128}
TotalSizes == {U(0), U(4100), U(8192), U(16400)}
BufferCounts == {0, 1, 4}
IndeterminateSizes == {U(0), U(4100)}

\* The iteration counts run_test is called with
IterationCounts == {0, 1}

EmptyTester(cache_line_size, garbage) ==
    [cache_line_size |-> cache_line_size, buffers |-> <<>>, aligned_buffers |-> <<>>,
     current_buffer_size |-> garbage]

\* cleanup_buffers that releases the buffers and keeps their pointers
cleanup_buffers_keep_pointers(t) == [t EXCEPT !.buffers = <<>>]

\* buffers.clear(); aligned_buffers.clear();
cleanup_buffers(t) == [t EXCEPT !.buffers = <<>>, !.aligned_buffers = <<>>]

NoRun == [pc |-> "idle"]

\* How a call of allocate_buffers ended: "true" for the value returned,
\* "MemoryError" for the exception thrown.
Returned(total_size, num_buffers, served, outcome) ==
    [op |-> "allocate_buffers", total_size |-> total_size, num_buffers |-> num_buffers,
     served |-> served, outcome |-> outcome]

\* allocate_buffers(total_size, num_buffers), where the allocator serves the
\* first `served` blocks and throws std::bad_alloc for the next one.
allocate_buffers(total_size, num_buffers, served, offset) ==
    /\ run.pc = "idle"
    /\ \E buffer_size \in {calculate_buffer_size(total_size, num_buffers,
                                                  tester.cache_line_size)} :
           IF total_size = U(0) \/ num_buffers = 0 \/ buffer_size = U(0)
           THEN /\ lastStats' = Returned(total_size, num_buffers, served, "MemoryError")
                /\ UNCHANGED tester
           ELSE IF \/ ~is_power_of_two(U(tester.cache_line_size))
                   \/ Lt(Sub(SIZE_MAX, U(tester.cache_line_size)), buffer_size)
           THEN \* the AlignedBuffer constructor throws MemoryError, which neither
                \* handler catches: the vectors stay cleared
                /\ tester' = [cleanup_buffers(tester) EXCEPT
                                  !.current_buffer_size = buffer_size]
                /\ lastStats' = Returned(total_size, num_buffers, served, "MemoryError")
           ELSE IF served < num_buffers
           THEN /\ tester' = [cleanup_buffers(tester) EXCEPT
                                  !.current_buffer_size = buffer_size]
                /\ lastStats' = Returned(total_size, num_buffers, served, "MemoryError")
           ELSE \E built \in {[j \in 1..num_buffers |->
                                 EmplacedBuffer(Add(Mul(BlockSpacing, j), U(offset)), buffer_size,
                                                tester.cache_line_size)]} :
                    IF \E j \in 1..num_buffers : ~is_aligned(built[j])
                    THEN \* thrown after the emplace_back: the buffers built so far
                         \* stay in the vectors
                         LET bad == CHOOSE j \in 1..num_buffers :
                                        /\ ~is_aligned(built[j])
                                        /\ \A k \in 1..(j - 1) : is_aligned(built[k])
                         IN  /\ tester' = [tester EXCEPT
                                    !.buffers = SubSeq(built, 1, bad),
                                    !.aligned_buffers =
                                        [k \in 1..(bad - 1) |-> built[k].aligned_ptr_],
                                    !.current_buffer_size = buffer_size]
                             /\ lastStats' = Returned(total_size, num_buffers, served, "MemoryError")
                    ELSE /\ tester' = [tester EXCEPT
                                !.buffers = built,
                                !.aligned_buffers =
                                    [k \in 1..num_buffers |-> built[k].aligned_ptr_],
                                !.current_buffer_size = buffer_size]
                         /\ lastStats' = Returned(total_size, num_buffers, served, "true")

CleanupBuffers ==
    /\ run.pc = "idle"
    /\ tester.buffers # <<>>
    /\ tester' = cleanup_buffers(tester)
    /\ lastStats' = [op |-> "cleanup_buffers"]
    /\ UNCHANGED <<stop_flag, run, workers, thread_results, alignVars, bufVars, wsVars>>

\* The range of thread i whose last thread stops at thread_count * bytes_per_thread
ThreadRange_no_remainder(i, num_threads, buffer_size) ==
    LET bytes_per_thread == buffer_size \div num_threads
    IN  <<i * bytes_per_thread, (i + 1) * bytes_per_thread>>

\* The range of thread i reaching two cache lines into the range of its successor
ThreadRange_overlap(i, num_threads, buffer_size) ==
    LET bytes_per_thread == buffer_size \div num_threads
    IN  <<i * bytes_per_thread,
          IF i = num_threads - 1 THEN buffer_size
          ELSE (i + 1) * bytes_per_thread + 2 * DEFAULT_CACHE_LINE_SIZE>>

\* <<start_offset, end_offset>> of thread i
ThreadRange(i, num_threads, buffer_size) ==
    LET bytes_per_thread == buffer_size \div num_threads
    IN  <<i * bytes_per_thread,
          IF i = num_threads - 1 THEN buffer_size ELSE (i + 1) * bytes_per_thread>>

\* run_test without its test for an empty pointer list
run_test_no_empty_test(pattern, iterations, num_threads) ==
    /\ run.pc = "idle"
    /\ run' = [pc |-> "spawn", pattern |-> pattern, iterations |-> iterations,
               num_threads |-> num_threads,
               buffer_size |-> Val(tester.current_buffer_size), i |-> 0]
    /\ workers' = [i \in 0..(num_threads - 1) |-> Unspawned]
    /\ thread_results' = [i \in 0..(num_threads - 1) |-> ZeroStats]
    /\ lastStats' = Idle

\* run_test up to the loop that starts the threads
run_test(pattern, iterations, num_threads) ==
    /\ run.pc = "idle"
    /\ IF tester.aligned_buffers = <<>>
       THEN /\ lastStats' = [op |-> "run_test", stats |-> ZeroStats]
            /\ UNCHANGED <<run, workers, thread_results>>
       ELSE /\ run' = [pc |-> "spawn", pattern |-> pattern, iterations |-> iterations,
                       num_threads |-> num_threads,
                       buffer_size |-> Val(tester.current_buffer_size), i |-> 0]
            /\ workers' = [i \in 0..(num_threads - 1) |-> Unspawned]
            /\ thread_results' = [i \in 0..(num_threads - 1) |-> ZeroStats]
            /\ lastStats' = Idle

\* One pass of for(i = 0; i < num_threads; ++i): threads.emplace_back(...)
SpawnThread ==
    /\ run.pc = "spawn"
    /\ \E r \in {ThreadRange(run.i, run.num_threads, run.buffer_size)} :
           workers' = [workers EXCEPT ![run.i] = Spawned(r[1], r[2])]
    /\ run' = IF run.i + 1 < run.num_threads
              THEN [run EXCEPT !.i = @ + 1]
              ELSE [run EXCEPT !.pc = "join", !.i = 0]
    /\ UNCHANGED <<tester, stop_flag, thread_results, lastStats,
                   alignVars, bufVars, wsVars>>

\* The join loop that does not wait for its thread to finish
JoinThread_no_wait ==
    /\ run.pc = "join"
    /\ run' = IF run.i + 1 < run.num_threads
              THEN [run EXCEPT !.i = @ + 1]
              ELSE [run EXCEPT !.pc = "joined"]
    /\ UNCHANGED <<tester, stop_flag, workers, thread_results, lastStats,
                   alignVars, bufVars, wsVars>>

\* One pass of for(auto& thread : threads) thread.join()
JoinThread ==
    /\ run.pc = "join"
    /\ workers[run.i].pc = "done"
    /\ run' = IF run.i + 1 < run.num_threads
              THEN [run EXCEPT !.i = @ + 1]
              ELSE [run EXCEPT !.pc = "joined"]
    /\ UNCHANGED <<tester, stop_flag, workers, thread_results, lastStats,
                   alignVars, bufVars, wsVars>>

\* aggregate_stats taking the time of the first thread for the run's
aggregate_stats_thread_time(results, num_threads, total_time) ==
    LET bytes_processed ==
            IF num_threads = 1 THEN results[0].bytes_processed
            ELSE results[0].bytes_processed + results[1].bytes_processed
                     + (IF num_threads > 2 THEN results[2].bytes_processed ELSE 0)
                     + (IF num_threads > 3 THEN results[3].bytes_processed ELSE 0)
        accesses == bytes_processed \div DEFAULT_CACHE_LINE_SIZE
        thread_time == results[0].time_seconds
    IN  [time_seconds |-> thread_time,
         bytes_processed |-> bytes_processed,
         bandwidth_gbps |-> IF thread_time > 0 THEN <<bytes_processed, thread_time>>
                            ELSE <<0, 1>>,
         latency_ns |-> IF bytes_processed > 0 /\ accesses > 0
                        THEN <<thread_time, accesses>> ELSE <<0, 1>>]

RECURSIVE SumBytes(_, _)
SumBytes(results, n) ==
    IF n = 0 THEN 0 ELSE results[n - 1].bytes_processed + SumBytes(results, n - 1)

aggregate_stats(results, num_threads, total_time) ==
    LET bytes_processed == SumBytes(results, num_threads)
        accesses == bytes_processed \div DEFAULT_CACHE_LINE_SIZE
    IN  [time_seconds |-> total_time,
         bytes_processed |-> bytes_processed,
         bandwidth_gbps |-> IF total_time > 0 THEN <<bytes_processed, total_time>>
                            ELSE <<0, 1>>,
         latency_ns |-> IF bytes_processed > 0 /\ accesses > 0
                        THEN <<total_time, accesses>> ELSE <<0, 1>>]

\* The clock readings around the threads: no shorter than any kernel's own.
TotalElapsed == {0, 100}

\* end_time, total_time and return aggregate_stats(thread_results, total_time)
ReturnStats ==
    /\ run.pc = "joined"
    /\ \E total_time \in TotalElapsed :
           /\ \A i \in 0..(run.num_threads - 1) :
                  thread_results[i].time_seconds <= total_time
           /\ lastStats' = [op |-> "run_test", total_time |-> total_time,
                            stats |-> aggregate_stats(thread_results, run.num_threads,
                                                      total_time)]
    /\ run' = NoRun
    /\ workers' = <<>>
    /\ thread_results' = <<>>
    /\ UNCHANGED <<tester, stop_flag, alignVars, bufVars, wsVars>>

RunInit ==
    /\ \E cache_line_size \in DetectedCacheLineSizes, garbage \in IndeterminateSizes :
           tester = EmptyTester(cache_line_size, garbage)
    /\ stop_flag = FALSE
    /\ run = NoRun
    /\ workers = <<>>
    /\ thread_results = <<>>
    /\ lastStats = Idle
    /\ al = Idle
    /\ objs = <<>>
    /\ heap = <<>>
    /\ abLast = Idle
    /\ wsIn = Idle
    /\ wsOut = Idle

AllocateBuffers ==
    /\ \E total_size \in TotalSizes, num_buffers \in BufferCounts, offset \in RawOffsets :
           \E served \in {0, num_buffers} :
               allocate_buffers(total_size, num_buffers, served, offset)
    /\ UNCHANGED <<stop_flag, run, workers, thread_results, alignVars, bufVars, wsVars>>

RunTest ==
    /\ \E pattern \in TestPatterns, iterations \in IterationCounts,
          num_threads \in 1..MaxThreads :
           run_test(pattern, iterations, num_threads)
    /\ UNCHANGED <<tester, stop_flag, alignVars, bufVars, wsVars>>

ThreadStart == \E i \in DOMAIN workers : run.pc # "idle" /\ KernelEntry(i)
ThreadLoopTest == \E i \in DOMAIN workers : KernelLoopTest(i)
ThreadIteration == \E i \in DOMAIN workers : KernelIteration(i)
ThreadReturn == \E i \in DOMAIN workers : KernelReturn(i)

RunNext ==
    \/ AllocateBuffers
    \/ CleanupBuffers
    \/ RunTest
    \/ SpawnThread
    \/ ThreadStart
    \/ ThreadLoopTest
    \/ ThreadIteration
    \/ ThreadReturn
    \/ JoinThread
    \/ ReturnStats

SpecRun == RunInit /\ [][RunNext]_vars

\* C1: in run_test the ranges handed to the threads tile [0, buffer_size): thread
\* i below the last gets [i*b, (i+1)*b) with b = buffer_size / thread_count
\* rounded down, the last one starts at (thread_count-1)*b and ends at
\* buffer_size, so consecutive ranges touch, none overlap and nothing is left out.
C1_Partition ==
    run.pc \in {"spawn", "join", "joined"} =>
        LET n == run.num_threads
            b == Val(tester.current_buffer_size) \div n
        IN  /\ run.buffer_size = Val(tester.current_buffer_size)
            /\ \A i \in DOMAIN workers :
                   workers[i].pc # "unspawned" =>
                       /\ workers[i].start_offset = i * b
                       /\ workers[i].start_offset <= workers[i].end_offset
                       /\ i < n - 1 => workers[i].end_offset = (i + 1) * b
                       /\ i = n - 1 => workers[i].end_offset = run.buffer_size
                       /\ i > 0 => workers[i].start_offset = workers[i - 1].end_offset

\* Three threads are running on a buffer whose size 3 does not divide, and the
\* last one holds more bytes than the others.
C1_Witness ==
    /\ run.pc = "join"
    /\ run.num_threads = 3
    /\ run.buffer_size % 3 # 0
    /\ workers[2].end_offset - workers[2].start_offset
           > workers[0].end_offset - workers[0].start_offset
    /\ workers[2].end_offset = Val(tester.current_buffer_size)

Overlap(x, y) == x[1] = y[1] /\ x[2] < y[3] /\ y[2] < x[3]

\* C2: at every point of every interleaving of run_test's threads, no byte a
\* thread has written was written or read by another thread: the byte ranges
\* the kernels touch after their own rounding are disjoint across threads.
C2_NoSharedWrites ==
    \A i \in DOMAIN workers, j \in DOMAIN workers :
        (i # j /\ workers[i].pc # "unspawned" /\ workers[j].pc # "unspawned") =>
            \A w \in workers[i].writes :
                \A a \in workers[j].reads \cup workers[j].writes : ~Overlap(w, a)

\* Three threads of a writing pattern have all written while one of them is
\* still inside its kernel.
C2_Witness ==
    /\ run.pc = "join"
    /\ run.pattern \in {"SEQUENTIAL_WRITE", "RANDOM_WRITE", "COPY", "TRIAD"}
    /\ run.num_threads = 3
    /\ \A i \in DOMAIN workers : workers[i].pc # "unspawned" /\ workers[i].writes # {}
    /\ \E i \in DOMAIN workers : workers[i].pc # "done"

(***************************************************************************)
(* A kernel called on its own                                              *)
(***************************************************************************)
KernelOffsets == {0, 3, 10, 12, 64, 100, 200, 256, 1024 * 1024}
KernelIterations == {0, 1, 2, 10}
KernelBufferSize == 1024 * 1024

KernelInit ==
    /\ tester = [cache_line_size |-> DEFAULT_CACHE_LINE_SIZE,
                 buffers |-> [j \in 1..4 |->
                     EmplacedBuffer(Mul(BlockSpacing, j), U(KernelBufferSize),
                                    DEFAULT_CACHE_LINE_SIZE)],
                 aligned_buffers |-> [j \in 1..4 |-> Mul(BlockSpacing, j)],
                 current_buffer_size |-> U(KernelBufferSize)]
    /\ stop_flag \in BOOLEAN
    /\ \E pattern \in Kernels, iterations \in KernelIterations :
           run = [pc |-> "kernel", pattern |-> pattern, iterations |-> iterations,
                  num_threads |-> 1, buffer_size |-> KernelBufferSize, i |-> 0]
    /\ \E start_offset \in KernelOffsets, end_offset \in KernelOffsets :
           workers = [i \in {0} |-> Spawned(start_offset, end_offset)]
    /\ thread_results = [i \in {0} |-> Idle]
    /\ lastStats = Idle
    /\ al = Idle
    /\ objs = <<>>
    /\ heap = <<>>
    /\ abLast = Idle
    /\ wsIn = Idle
    /\ wsOut = Idle

\* The caller's side of the flag: stop_flag.store(true) while the kernel runs.
RequestStop ==
    /\ run.pc = "kernel"
    /\ ~stop_flag
    /\ workers[0].pc # "done"
    /\ stop_flag' = TRUE
    /\ UNCHANGED <<tester, run, workers, thread_results, lastStats,
                   alignVars, bufVars, wsVars>>

KernelNext ==
    \/ ThreadStart
    \/ ThreadLoopTest
    \/ ThreadIteration
    \/ ThreadReturn
    \/ RequestStop

SpecKernel == KernelInit /\ [][KernelNext]_vars

\* The rounded end is no larger than the rounded start: the start rounded up
\* and the end rounded down to the kernel's granule (8 bytes in triad, 64
\* elsewhere).
Collapsed(pattern, start_offset, end_offset) ==
    LET g == IF pattern = "TRIAD" THEN 8 ELSE 64
    IN  (end_offset \div g) * g <= ((start_offset + g - 1) \div g) * g

\* C8: a kernel called on a range whose rounded end is not above its rounded
\* start returns the all-zero record (bandwidth 0, latency 0, bytes 0, time 0)
\* and has read and written no byte, whatever the iteration count and the flag.
C8_CollapsedRangeIsNoOp ==
    \A i \in DOMAIN workers :
        (/\ run.pc = "kernel"
         /\ workers[i].pc = "done"
         /\ Collapsed(run.pattern, workers[i].start_offset, workers[i].end_offset)) =>
            /\ thread_results[i] = ZeroStats
            /\ workers[i].reads = {}
            /\ workers[i].writes = {}

\* A kernel has returned from a non-empty request that rounds to nothing, with
\* iterations to run and the flag clear.
C8_Witness ==
    /\ run.pc = "kernel"
    /\ workers[0].pc = "done"
    /\ workers[0].start_offset < workers[0].end_offset
    /\ workers[0].aligned_end = workers[0].aligned_start
    /\ Collapsed(run.pattern, workers[0].start_offset, workers[0].end_offset)
    /\ run.iterations > 0
    /\ ~stop_flag
    /\ thread_results[0] = ZeroStats

\* C11: after the WorkingSetSizes constructor and after get_thread_aware_sizes,
\* for every cache description, sizes and descriptions have the same length.
C11_SameLength ==
    wsOut.pc = "done" => Len(wsOut.sizes) = Len(wsOut.descriptions)

\* get_thread_aware_sizes on an all-zero cache description returned the five
\* standard sizes, the last one labelled 4GB.
C11_Witness ==
    /\ wsOut.pc = "done"
    /\ wsOut.op = "thread_aware"
    /\ wsIn.cache_info.l1_data_size = U(0)
    /\ wsIn.cache_info.l2_size = U(0)
    /\ wsIn.cache_info.l3_size = U(0)
    /\ Len(wsOut.sizes) = 5
    /\ wsOut.descriptions[5] = "4GB"

\* The size the entry labelled description must have
PerThreadSize(description, c, n) ==
    CASE description = "L1 per thread" -> c.l1_data_size
      [] description = "1/2 L1 per thread" -> Div(c.l1_data_size, 2)
      [] description = "1/4 L1 per thread" -> Div(c.l1_data_size, 4)
      [] description = "L2 per thread" -> c.l2_size
      [] description = "1/2 L2 per thread" -> Div(c.l2_size, 2)
      [] description = "1/4 L2 per thread" -> Div(c.l2_size, 4)
      [] description = "SLC per thread" -> Div(c.l3_size, n)
      [] description = "1/2 SLC per thread" -> Div(Div(c.l3_size, n), 2)
      [] description = "1/4 SLC per thread" -> Div(Div(c.l3_size, n), 4)

PerThreadLabels ==
    {"L1 per thread", "1/2 L1 per thread", "1/4 L1 per thread",
     "L2 per thread", "1/2 L2 per thread", "1/4 L2 per thread",
     "SLC per thread", "1/2 SLC per thread", "1/4 SLC per thread"}

\* C12: in the list of get_thread_aware_sizes(cache, n) the entries labelled
\* for L1 and L2 are that fraction of the whole l1_data_size and l2_size,
\* whatever n is, and the entries labelled for the shared cache are that
\* fraction of l3_size / n rounded down.
C12_PerThreadEntries ==
    (wsOut.pc = "done" /\ wsOut.op = "thread_aware") =>
        \A i \in 1..Len(wsOut.descriptions) :
            wsOut.descriptions[i] \in PerThreadLabels =>
                /\ i <= Len(wsOut.sizes)
                /\ wsOut.sizes[i] = PerThreadSize(wsOut.descriptions[i],
                                                  wsIn.cache_info, wsIn.num_threads)

\* Three threads on a 32KB / 4MB / 32MB hierarchy: all nine per-thread entries
\* are present, and the shared-cache entry is not the whole shared cache.
C12_Witness ==
    /\ wsOut.pc = "done"
    /\ wsOut.op = "thread_aware"
    /\ wsIn.num_threads = 3
    /\ wsIn.cache_info.l2_size = Mul(MB, 4)
    /\ wsIn.cache_info.l3_size = Mul(MB, 32)
    /\ \A d \in PerThreadLabels : \E i \in 1..Len(wsOut.descriptions) :
           wsOut.descriptions[i] = d
    /\ \E i \in 1..Len(wsOut.sizes) :
           /\ wsOut.descriptions[i] = "SLC per thread"
           /\ wsOut.sizes[i] = Div(Mul(MB, 32), 3)
           /\ wsOut.sizes[i] # wsIn.cache_info.l3_size

(***************************************************************************)
(* calculate_stats called on its own                                       *)
(***************************************************************************)
\* Byte counts, times in nanoseconds (a negative one included) and operation
\* counts of the calls.
StatsBytes == {0, 1, 6000, 6001, 1000000, 1000000000}
StatsTimes == {0 - 5, 0, 1, 100, 1000, 1000000000}
StatsOperations == {0, 1, 64, 1000000}

StatsInit ==
    /\ \E bytes_processed \in StatsBytes, time_seconds \in StatsTimes,
          operations \in StatsOperations :
           run = [pc |-> "calculate_stats", bytes_processed |-> bytes_processed,
                  time_seconds |-> time_seconds, operations |-> operations]
    /\ lastStats = Idle
    /\ tester = Idle
    /\ stop_flag = FALSE
    /\ workers = <<>>
    /\ thread_results = <<>>
    /\ al = Idle
    /\ objs = <<>>
    /\ heap = <<>>
    /\ abLast = Idle
    /\ wsIn = Idle
    /\ wsOut = Idle

CalculateStats ==
    /\ run.pc = "calculate_stats"
    /\ lastStats = Idle
    /\ lastStats' = [op |-> "calculate_stats",
                     stats |-> calculate_stats(run.bytes_processed, run.time_seconds,
                                               run.operations)]
    /\ UNCHANGED <<tester, stop_flag, run, workers, thread_results,
                   alignVars, bufVars, wsVars>>

StatsNext == CalculateStats

SpecStats == StatsInit /\ [][StatsNext]_vars

RECURSIVE Gcd(_, _)
Gcd(a, b) == IF b = 0 THEN a ELSE Gcd(b, a % b)

\* The quotient q = <<n, d>> in lowest terms, and equality of two quotients
Lowest(q) == LET g == Gcd(q[1], q[2]) IN <<q[1] \div g, q[2] \div g>>
SameValue(q, r) == Lowest(q) = Lowest(r)

\* C13: calculate_stats(bytes, time, ops) returns bytes and time unchanged;
\* with time > 0 and ops > 0 the bandwidth is bytes / (time x 1e9) capped at 60
\* and the latency is (time x 1e9) / ops, uncapped; with time <= 0 or ops = 0
\* both are 0.  10^9 bytes in 1 s with 10^6 operations give 1 GB/s and 1000 ns.
C13_Stats ==
    lastStats.op = "calculate_stats" =>
        LET s == lastStats.stats
            bytes == run.bytes_processed
            time == run.time_seconds
            ops == run.operations
        IN  /\ s.bytes_processed = bytes
            /\ s.time_seconds = time
            /\ (time > 0 /\ ops > 0) =>
                   /\ SameValue(s.latency_ns, <<time, ops>>)
                   /\ ~Exceeds(bytes, time, 60) =>
                          SameValue(s.bandwidth_gbps, <<bytes, time>>)
                   /\ Exceeds(bytes, time, 60) => SameValue(s.bandwidth_gbps, <<60, 1>>)
            /\ (time <= 0 \/ ops = 0) =>
                   /\ SameValue(s.bandwidth_gbps, <<0, 1>>)
                   /\ SameValue(s.latency_ns, <<0, 1>>)
            /\ (bytes = 1000000000 /\ time = 1000000000 /\ ops = 1000000) =>
                   /\ SameValue(s.bandwidth_gbps, <<1, 1>>)
                   /\ SameValue(s.latency_ns, <<1000, 1>>)

\* A call whose raw bandwidth is 10^6 GB/s (10^9 bytes in 1000 ns) came back
\* with the ceiling and an unclamped latency of 1000 ns / 64.
C13_Witness ==
    /\ lastStats.op = "calculate_stats"
    /\ run.bytes_processed = 1000000000
    /\ run.time_seconds = 1000
    /\ run.operations = 64
    /\ lastStats.stats.bandwidth_gbps = <<60, 1>>
    /\ lastStats.stats.latency_ns = <<1000, 64>>

\* C14: a kernel looks at the cancellation flag only in the test at the head of
\* an iteration.  With the flag set it starts no iteration and its iteration
\* count grows only by finishing the iteration it is in; an iteration under way
\* always runs to its end; and a kernel called with the flag already set runs
\* zero iterations, touches no buffer byte and still returns a record.
C14_FlagAtBoundary ==
    /\ [][run.pc = "kernel" =>
              \A i \in DOMAIN workers :
                  /\ stop_flag => workers'[i].pc # "body" \/ workers[i].pc = "body"
                  /\ (stop_flag /\ workers[i].pc # "body") =>
                         /\ workers'[i].iter = workers[i].iter
                         /\ workers'[i].reads = workers[i].reads
                         /\ workers'[i].writes = workers[i].writes
                  /\ (workers[i].pc = "body" /\ workers'[i] # workers[i]) =>
                         /\ workers'[i].iter = workers[i].iter + 1
                         /\ workers'[i].pc = "loop"]_vars
    /\ []((run.pc = "kernel" /\ stop_flag /\ workers[0].pc = "spawned") =>
              [](/\ workers[0].iter = 0
                 /\ workers[0].reads = {}
                 /\ workers[0].writes = {}
                 /\ workers[0].pc \in {"spawned", "loop", "timed", "done"}
                 /\ workers[0].pc = "done" =>
                        thread_results[0].bytes_processed \in Nat))

\* The flag was set while a kernel asked for two iterations was inside its
\* first one: it has finished that iteration, written its range once and
\* returned after one iteration.
C14_Witness ==
    /\ run.pc = "kernel"
    /\ run.iterations = 2
    /\ run.pattern = "SEQUENTIAL_WRITE"
    /\ stop_flag
    /\ workers[0].pc = "done"
    /\ workers[0].iter = 1
    /\ workers[0].writes # {}

\* The bytes of the rounded range: the end rounded down minus the start rounded
\* up, to 8 bytes in triad and to a 64-byte cache line elsewhere.
RoundedBytes(pattern, start_offset, end_offset) ==
    LET g == IF pattern = "TRIAD" THEN 8 ELSE 64
    IN  (end_offset \div g) * g - ((start_offset + g - 1) \div g) * g

\* The bytes n iterations over R bytes move: each byte once, twice in copy
\* (read and write), three times in triad (read B, read C, write A).
MovedBytes(pattern, R, n) ==
    CASE pattern = "COPY" -> 2 * R * n
      [] pattern = "TRIAD" -> 3 * R * n
      [] OTHER -> R * n

\* C15: a kernel the flag stopped after k < iterations completed iterations
\* returns a record whose bytes_processed counts the k iterations it executed.
C15_TruncatedRecord ==
    \A i \in DOMAIN workers :
        (/\ run.pc = "kernel"
         /\ workers[i].pc = "done"
         /\ ~Collapsed(run.pattern, workers[i].start_offset, workers[i].end_offset)
         /\ workers[i].iter < run.iterations) =>
            thread_results[i].bytes_processed =
                MovedBytes(run.pattern,
                           RoundedBytes(run.pattern, workers[i].start_offset,
                                        workers[i].end_offset),
                           workers[i].iter)

\* C19: a kernel that ran all its n iterations with the flag clear over a
\* non-empty rounded range of R bytes reports R x n bytes for sequential read,
\* sequential write and random access, 2 x R x n for copy, 3 x R x n for triad.
C19_BytesProcessed ==
    \A i \in DOMAIN workers :
        (/\ run.pc = "kernel"
         /\ workers[i].pc = "done"
         /\ ~stop_flag
         /\ ~Collapsed(run.pattern, workers[i].start_offset, workers[i].end_offset)) =>
            /\ workers[i].iter = run.iterations
            /\ thread_results[i].bytes_processed =
                   MovedBytes(run.pattern,
                              RoundedBytes(run.pattern, workers[i].start_offset,
                                           workers[i].end_offset),
                              run.iterations)

\* Ten sequential-read iterations over a whole 1 MB buffer have returned
\* 1,048,576 x 10 bytes.
C19_Witness ==
    /\ run.pc = "kernel"
    /\ run.pattern = "SEQUENTIAL_READ"
    /\ run.iterations = 10
    /\ ~stop_flag
    /\ workers[0].pc = "done"
    /\ workers[0].start_offset = 0
    /\ workers[0].end_offset = 1048576
    /\ workers[0].reads = {<<1, 0, 1048576>>}
    /\ thread_results[0].bytes_processed = 10485760

\* C16: allocate_buffers(total_size, num_buffers) throws MemoryError when
\* total_size is 0, num_buffers is 0, or total_size / num_buffers rounded down
\* is below MIN_BUFFER_SIZE (4 KB) or below the cache line size; otherwise, when
\* the allocator serves every block, it returns true and the tester holds
\* exactly num_buffers buffers of that size, each aligned to the cache line,
\* and nothing of what it held before.
C16_AllocateBuffers ==
    lastStats.op = "allocate_buffers" =>
        LET total == lastStats.total_size
            num == lastStats.num_buffers
            refused == \/ total = U(0)
                       \/ num = 0
                       \/ Lt(Div(total, num), U(4096))
                       \/ Lt(Div(total, num), U(tester.cache_line_size))
        IN  /\ refused => lastStats.outcome = "MemoryError"
            /\ (~refused /\ lastStats.served = num) =>
                   /\ lastStats.outcome = "true"
                   /\ Len(tester.buffers) = num
                   /\ Len(tester.aligned_buffers) = num
                   /\ tester.current_buffer_size = Div(total, num)
                   /\ \A k \in 1..num :
                          /\ tester.buffers[k].size_ = Div(total, num)
                          /\ tester.aligned_buffers[k] = tester.buffers[k].aligned_ptr_
                          /\ ModSize(tester.aligned_buffers[k], U(tester.cache_line_size)) = U(0)
                          /\ \A j \in 1..num :
                                 j # k => tester.aligned_buffers[j] # tester.aligned_buffers[k]

\* Four buffers of 4100 bytes stand on a tester with 128-byte cache lines, from
\* blocks that were not aligned to 128.
C16_Witness ==
    /\ lastStats.op = "allocate_buffers"
    /\ lastStats.outcome = "true"
    /\ lastStats.total_size = U(16400)
    /\ lastStats.num_buffers = 4
    /\ tester.cache_line_size = 128
    /\ Len(tester.buffers) = 4
    /\ \A k \in 1..4 : tester.buffers[k].addr # tester.buffers[k].aligned_ptr_

(***************************************************************************)
(* run_cache_aware_test: the sweep over the thread-aware working sets      *)
(***************************************************************************)
SMALL_CACHE_ITER_MULTIPLIER == 100000
MEDIUM_CACHE_ITER_MULTIPLIER == 100000
LARGE_CACHE_ITER_MULTIPLIER == 1000
SMALL_CACHE_THRESHOLD == Mul(KB, 64)
MEDIUM_CACHE_THRESHOLD == Mul(MB, 4)
LARGE_CACHE_THRESHOLD == Mul(MB, 8)

\* x * m in size_t for a multiplier m < 2^26: the product modulo 2^64
MulWide(x, m) == Add(Mul(Mul(x, m \div 8192), 8192), Mul(x, m % 8192))

\* scale_iterations with the medium tier closed at its lower end too
scale_iterations_exclusive(base_iterations, working_set_size) ==
    IF Lt(working_set_size, SMALL_CACHE_THRESHOLD)
    THEN MulWide(base_iterations, SMALL_CACHE_ITER_MULTIPLIER)
    ELSE IF Lt(working_set_size, MEDIUM_CACHE_THRESHOLD)
    THEN MulWide(base_iterations, MEDIUM_CACHE_ITER_MULTIPLIER)
    ELSE IF Lt(working_set_size, LARGE_CACHE_THRESHOLD)
    THEN MulWide(base_iterations, LARGE_CACHE_ITER_MULTIPLIER)
    ELSE base_iterations

\* Both arguments and the result are size_t values
scale_iterations(base_iterations, working_set_size) ==
    IF Le(working_set_size, SMALL_CACHE_THRESHOLD)
    THEN MulWide(base_iterations, SMALL_CACHE_ITER_MULTIPLIER)
    ELSE IF Le(working_set_size, MEDIUM_CACHE_THRESHOLD)
    THEN MulWide(base_iterations, MEDIUM_CACHE_ITER_MULTIPLIER)
    ELSE IF Le(working_set_size, LARGE_CACHE_THRESHOLD)
    THEN MulWide(base_iterations, LARGE_CACHE_ITER_MULTIPLIER)
    ELSE base_iterations

get_pattern_name(pattern) ==
    CASE pattern = "SEQUENTIAL_READ" -> "Sequential Read"
      [] pattern = "SEQUENTIAL_WRITE" -> "Sequential Write"
      [] pattern = "RANDOM_READ" -> "Random Read"
      [] pattern = "RANDOM_WRITE" -> "Random Write"
      [] pattern = "COPY" -> "Copy"
      [] pattern = "TRIAD" -> "Triad"
      [] OTHER -> "Unknown"

\* The cache descriptions, patterns and thread counts of the modelled sweeps: no
\* cache at all, and an 8KB L1 whose two entries are too small to be split into
\* four buffers; every size that can be allocated is beyond the scaled
\* thresholds, so its run has base_iterations iterations.
SweepCaches ==
    {[l1_data_size |-> U(0), l2_size |-> U(0), l3_size |-> U(0)],
     [l1_data_size |-> Mul(KB, 8), l2_size |-> U(0), l3_size |-> U(0)]}
SweepPatterns == {"SEQUENTIAL_WRITE", "RANDOM_READ"}
SweepThreads == {1, 2}
SweepIterations == {1}

SweepInit ==
    /\ \E cache_line_size \in DetectedCacheLineSizes, garbage \in IndeterminateSizes :
           tester = EmptyTester(cache_line_size, garbage)
    /\ \E cache_info \in SweepCaches, pattern \in SweepPatterns,
          num_threads \in SweepThreads, iterations \in SweepIterations :
           wsIn = [pc |-> "sweep", cache_info |-> cache_info, pattern |-> pattern,
                   iterations |-> iterations, num_threads |-> num_threads,
                   i |-> 0, results |-> <<>>]
    /\ wsOut = Idle
    /\ stop_flag = FALSE
    /\ run = NoRun
    /\ workers = <<>>
    /\ thread_results = <<>>
    /\ lastStats = Idle
    /\ al = Idle
    /\ objs = <<>>
    /\ heap = <<>>
    /\ abLast = Idle

\* auto [sizes, descriptions] = get_thread_aware_sizes(cache_info, num_threads)
SweepSizes ==
    /\ wsIn.pc = "sweep"
    /\ wsOut' = [pc |-> "done", op |-> "thread_aware"]
                    @@ get_thread_aware_sizes(wsIn.cache_info, wsIn.num_threads)
    /\ wsIn' = [wsIn EXCEPT !.pc = "size", !.i = 0]
    /\ UNCHANGED <<alignVars, bufVars, runVars>>

\* The pass whose MemoryError ends the sweep instead of skipping the size
SweepAllocate_abort ==
    /\ wsIn.pc = "size"
    /\ wsIn.i < Len(wsOut.sizes)
    /\ \E working_set_size \in {wsOut.sizes[wsIn.i + 1]} :
           IF Lt(working_set_size, MIN_WORKING_SET_SIZE)
           THEN /\ wsIn' = [wsIn EXCEPT !.i = @ + 1]
                /\ UNCHANGED <<tester, lastStats>>
           ELSE /\ \E served \in {0, 4}, offset \in RawOffsets :
                       allocate_buffers(working_set_size, 4, served, offset)
                /\ wsIn' = IF lastStats'.outcome = "MemoryError"
                           THEN [wsIn EXCEPT !.pc = "returned"]
                           ELSE [wsIn EXCEPT !.pc = "run"]
    /\ UNCHANGED <<wsOut, stop_flag, run, workers, thread_results, alignVars, bufVars>>

\* The head of one pass of the loop up to the call of run_test: the size test,
\* allocate_buffers(working_set_size, 4) inside its try block, where a
\* MemoryError continues with the next size.
SweepAllocate ==
    /\ wsIn.pc = "size"
    /\ wsIn.i < Len(wsOut.sizes)
    /\ \E working_set_size \in {wsOut.sizes[wsIn.i + 1]} :
           IF Lt(working_set_size, MIN_WORKING_SET_SIZE)
           THEN /\ wsIn' = [wsIn EXCEPT !.i = @ + 1]
                /\ UNCHANGED <<tester, lastStats>>
           ELSE /\ \E served \in {0, 4}, offset \in RawOffsets :
                       allocate_buffers(working_set_size, 4, served, offset)
                /\ wsIn' = IF lastStats'.outcome = "MemoryError"
                           THEN [wsIn EXCEPT !.i = @ + 1]
                           ELSE [wsIn EXCEPT !.pc = "run"]
    /\ UNCHANGED <<wsOut, stop_flag, run, workers, thread_results, alignVars, bufVars>>

\* scaled_iterations = scale_iterations(iterations, working_set_size) and the
\* call run_test(pattern, scaled_iterations, num_threads, true)
SweepRunTest ==
    /\ wsIn.pc = "run"
    /\ run_test(wsIn.pattern,
                Val(scale_iterations(U(wsIn.iterations), wsOut.sizes[wsIn.i + 1])),
                wsIn.num_threads)
    /\ wsIn' = [wsIn EXCEPT !.pc = "measured"]
    /\ UNCHANGED <<wsOut, tester, stop_flag, alignVars, bufVars>>

\* The TestResult of the pass, results.push_back(result) and ++i
SweepRecord ==
    /\ wsIn.pc = "measured"
    /\ run.pc = "idle"
    /\ lastStats.op = "run_test"
    /\ wsIn' = [wsIn EXCEPT
           !.pc = "size",
           !.i = @ + 1,
           !.results = Append(@, [test_name |-> get_pattern_name(wsIn.pattern),
                                  working_set_desc |-> wsOut.descriptions[wsIn.i + 1],
                                  stats |-> lastStats.stats,
                                  num_threads |-> wsIn.num_threads,
                                  pattern_name |-> get_pattern_name(wsIn.pattern)])]
    /\ UNCHANGED <<wsOut, alignVars, bufVars, runVars>>

\* return results
SweepReturn ==
    /\ wsIn.pc = "size"
    /\ wsIn.i >= Len(wsOut.sizes)
    /\ wsIn' = [wsIn EXCEPT !.pc = "returned"]
    /\ UNCHANGED <<wsOut, alignVars, bufVars, runVars>>

SweepNext ==
    \/ SweepSizes
    \/ SweepAllocate
    \/ SweepRunTest
    \/ SpawnThread
    \/ ThreadStart
    \/ ThreadLoopTest
    \/ ThreadIteration
    \/ ThreadReturn
    \/ JoinThread
    \/ ReturnStats
    \/ SweepRecord
    \/ SweepReturn

SpecSweep == SweepInit /\ [][SweepNext]_vars

\* Where a label stands in the generator's list
LabelIndex(description) ==
    CHOOSE k \in 1..Len(wsOut.descriptions) : wsOut.descriptions[k] = description

\* C17: in run_cache_aware_test a MemoryError from allocate_buffers only skips
\* the size at hand: that pass starts no thread and records nothing, and the
\* sweep goes on with the next size until the list is exhausted.  A result is
\* recorded only for a size whose buffers were allocated, once, after its
\* run_test has returned, with the label of that size; so the results follow
\* the generator's order.
C17_SweepSkipsFailedSizes ==
    /\ [](wsIn.pc \in {"size", "run", "measured", "returned"} =>
              /\ wsIn.pc # "measured" => (workers = <<>> /\ run.pc = "idle")
              /\ wsIn.pc = "returned" => wsIn.i = Len(wsOut.sizes)
              /\ wsIn.pc \in {"run", "measured"} => Len(tester.aligned_buffers) = 4
              /\ \A k \in 1..Len(wsIn.results) :
                     /\ LabelIndex(wsIn.results[k].working_set_desc) <= wsIn.i
                     /\ k > 1 => LabelIndex(wsIn.results[k - 1].working_set_desc)
                                     < LabelIndex(wsIn.results[k].working_set_desc))
    /\ [][wsIn.pc \in {"size", "run", "measured"} =>
              \/ UNCHANGED wsIn
              \/ \* a size skipped after a MemoryError
                 /\ wsIn.pc = "size" /\ wsIn'.pc = "size"
                 /\ lastStats'.op = "allocate_buffers"
                 /\ lastStats'.outcome = "MemoryError"
                 /\ lastStats'.total_size = wsOut.sizes[wsIn.i + 1]
                 /\ wsIn'.i = wsIn.i + 1
                 /\ wsIn'.results = wsIn.results
                 /\ UNCHANGED <<run, workers, thread_results>>
              \/ \* buffers allocated: the size is measured
                 /\ wsIn.pc = "size" /\ wsIn'.pc = "run"
                 /\ lastStats'.outcome = "true"
                 /\ wsIn'.i = wsIn.i
                 /\ wsIn'.results = wsIn.results
              \/ /\ wsIn.pc = "run" /\ wsIn'.pc = "measured"
                 /\ wsIn'.i = wsIn.i
                 /\ wsIn'.results = wsIn.results
              \/ \* its result recorded under its label
                 /\ wsIn.pc = "measured" /\ wsIn'.pc = "size"
                 /\ wsIn'.i = wsIn.i + 1
                 /\ Len(wsIn'.results) = Len(wsIn.results) + 1
                 /\ SubSeq(wsIn'.results, 1, Len(wsIn.results)) = wsIn.results
                 /\ wsIn'.results[Len(wsIn'.results)].working_set_desc
                        = wsOut.descriptions[wsIn.i + 1]
                 /\ wsIn'.results[Len(wsIn'.results)].stats = lastStats.stats
              \/ \* the list is exhausted
                 /\ wsIn.pc = "size" /\ wsIn'.pc = "returned"
                 /\ wsIn.i = Len(wsOut.sizes)
                 /\ wsIn'.results = wsIn.results]_vars

\* A sweep over an 8KB L1 has returned: both L1 sizes were refused as too small
\* for four buffers, the allocator failed for 256MB, 2GB and 4GB, and the
\* results are those of 64MB and 1GB, in that order.
C17_Witness ==
    /\ wsIn.pc = "returned"
    /\ wsIn.cache_info.l1_data_size = Mul(KB, 8)
    /\ Len(wsOut.sizes) = 7
    /\ Len(wsIn.results) = 2
    /\ wsIn.results[1].working_set_desc = "64MB"
    /\ wsIn.results[2].working_set_desc = "1GB"
    /\ wsIn.results[2].stats.bytes_processed > 0

RECURSIVE TotalBytes(_, _)
TotalBytes(results, threads) ==
    IF threads = {} THEN 0
    ELSE LET i == CHOOSE j \in threads : TRUE
         IN  results[i].bytes_processed + TotalBytes(results, threads \ {i})

\* C18: the record run_test returns after joining its threads has
\* bytes_processed = the sum of the threads' bytes_processed, time_seconds = the
\* wall-clock time total_time taken around the spawn and join loops, and a
\* bandwidth that is that sum over that time (0 when the clock did not
\* advance), whatever the threads' own times and bandwidths are.
C18_Aggregate ==
    [][(run.pc = "joined" /\ run'.pc = "idle") =>
           LET s == lastStats'.stats
               sum == TotalBytes(thread_results, DOMAIN thread_results)
           IN  /\ lastStats'.op = "run_test"
               /\ s.bytes_processed = sum
               /\ s.time_seconds = lastStats'.total_time
               /\ lastStats'.total_time > 0 =>
                      SameValue(s.bandwidth_gbps, <<sum, lastStats'.total_time>>)
               /\ lastStats'.total_time = 0 => SameValue(s.bandwidth_gbps, <<0, 1>>)]_vars

\* Three threads wrote 1344 + 1280 + 1344 bytes of a 4100-byte buffer and the
\* run took 100 ns by the wall clock: 3968 bytes over 100 ns.
C18_Witness ==
    /\ lastStats.op = "run_test"
    /\ run.pc = "idle"
    /\ lastStats.stats.bytes_processed = 3968
    /\ lastStats.stats.time_seconds = 100
    /\ lastStats.stats.bandwidth_gbps = <<3968, 100>>

(***************************************************************************)
(* OutputFormatter: the efficiency of a result and the check that marks a  *)
(* row of the Markdown table.  A double is an exact quotient <<n, d>> with *)
(* d > 0; bandwidths are in GB/s, latencies in nanoseconds.                *)
(***************************************************************************)
MAX_EFFICIENCY_VIRTUALIZED == 50
MIN_LATENCY_NS == <<1, 10>>

QLess(a, b) == a[1] * b[2] < b[1] * a[2]
QLessEq(a, b) == a[1] * b[2] <= b[1] * a[2]

calculate_efficiency(bandwidth_gbps, theoretical_bandwidth_gbps) ==
    IF QLess(theoretical_bandwidth_gbps, <<0, 1>>) THEN <<0 - 1, 1>>
    ELSE IF QLessEq(theoretical_bandwidth_gbps, <<0, 1>>) THEN <<0, 1>>
    ELSE <<bandwidth_gbps[1] * theoretical_bandwidth_gbps[2] * 100,
           bandwidth_gbps[2] * theoretical_bandwidth_gbps[1]>>

\* validate_test_result flagging an efficiency of exactly the ceiling too
validate_test_result_inclusive(result, mem_specs) ==
    LET efficiency == calculate_efficiency(result.stats.bandwidth_gbps,
                                           mem_specs.theoretical_bandwidth_gbps)
    IN  \/ /\ mem_specs.is_virtualized
           /\ QLessEq(<<MAX_EFFICIENCY_VIRTUALIZED, 1>>, efficiency)
        \/ QLess(mem_specs.theoretical_bandwidth_gbps, result.stats.bandwidth_gbps)
        \/ QLess(result.stats.latency_ns, MIN_LATENCY_NS)
        \/ QLessEq(result.stats.bandwidth_gbps, <<0, 1>>)
        \/ QLessEq(result.stats.latency_ns, <<0, 1>>)

\* suspicious starts false and each of the four tests can only set it
validate_test_result(result, mem_specs) ==
    LET efficiency == calculate_efficiency(result.stats.bandwidth_gbps,
                                           mem_specs.theoretical_bandwidth_gbps)
        s0 == FALSE
        s1 == IF mem_specs.is_virtualized
                 /\ QLess(<<MAX_EFFICIENCY_VIRTUALIZED, 1>>, efficiency)
              THEN TRUE ELSE s0
        s2 == IF QLess(mem_specs.theoretical_bandwidth_gbps, result.stats.bandwidth_gbps)
              THEN TRUE ELSE s1
        s3 == IF QLess(result.stats.latency_ns, MIN_LATENCY_NS) THEN TRUE ELSE s2
        s4 == IF \/ QLessEq(result.stats.bandwidth_gbps, <<0, 1>>)
                 \/ QLessEq(result.stats.latency_ns, <<0, 1>>)
              THEN TRUE ELSE s3
    IN  s4

\* The cells of a table row: the name, the working set, the thread count, the
\* bandwidth in Gb/s (GB/s x 8), the warning sign, the latency and the
\* efficiency.  The digits the stream keeps of each number are not modelled.
format_markdown_test_result(result, mem_specs) ==
    [test_name |-> result.test_name,
     working_set_desc |-> result.working_set_desc,
     num_threads |-> result.num_threads,
     bandwidth |-> <<result.stats.bandwidth_gbps[1] * 8, result.stats.bandwidth_gbps[2]>>,
     warning |-> validate_test_result(result, mem_specs),
     latency |-> result.stats.latency_ns,
     efficiency |-> calculate_efficiency(result.stats.bandwidth_gbps,
                                         mem_specs.theoretical_bandwidth_gbps)]

\* Measured bandwidths and latencies, theoretical bandwidths (-1 is what a
\* virtualized x86 system reports, 51.2 a dual-channel DDR4-3200 one)
FormatBandwidths == {<<0 - 1, 1>>, <<0, 1>>, <<5, 1>>, <<10, 1>>, <<11, 1>>, <<60, 1>>}
FormatLatencies == {<<0 - 1, 1>>, <<0, 1>>, <<1, 20>>, <<1, 10>>, <<5, 1>>}
FormatTheoretical == {<<0 - 1, 1>>, <<0, 1>>, <<10, 1>>, <<20, 1>>, <<512, 10>>}

FormatInit ==
    /\ \E bandwidth_gbps \in FormatBandwidths, latency_ns \in FormatLatencies,
          theoretical_bandwidth_gbps \in FormatTheoretical, is_virtualized \in BOOLEAN :
           run = [pc |-> "format",
                  result |-> [test_name |-> "Sequential Read",
                              working_set_desc |-> "L1",
                              num_threads |-> 1,
                              stats |-> [bandwidth_gbps |-> bandwidth_gbps,
                                         latency_ns |-> latency_ns]],
                  mem_specs |-> [theoretical_bandwidth_gbps |-> theoretical_bandwidth_gbps,
                                 is_virtualized |-> is_virtualized]]
    /\ lastStats = Idle
    /\ tester = Idle
    /\ stop_flag = FALSE
    /\ workers = <<>>
    /\ thread_results = <<>>
    /\ al = Idle
    /\ objs = <<>>
    /\ heap = <<>>
    /\ abLast = Idle
    /\ wsIn = Idle
    /\ wsOut = Idle

\* The result is taken by const reference: the caller's copy stays as it was
FormatMarkdownTestResult ==
    /\ run.pc = "format"
    /\ lastStats' = [op |-> "format_markdown_test_result",
                     result |-> run.result,
                     suspicious |-> validate_test_result(run.result, run.mem_specs),
                     row |-> format_markdown_test_result(run.result, run.mem_specs)]
    /\ run' = [run EXCEPT !.pc = "formatted"]
    /\ UNCHANGED <<tester, stop_flag, workers, thread_results,
                   alignVars, bufVars, wsVars>>

FormatNext == FormatMarkdownTestResult

SpecFormat == FormatInit /\ [][FormatNext]_vars

\* C20: a result is marked suspicious exactly when the system is virtualized
\* and the efficiency (bandwidth / theoretical x 100 for a positive
\* theoretical bandwidth, -1 for a negative one, 0 for zero) is above 50, or the
\* bandwidth is above the theoretical bandwidth, or the latency is below
\* 0.1 ns, or the bandwidth or the latency is <= 0.  The mark changes nothing
\* else: the result keeps its statistics and its row is written, with the
\* warning sign when it is marked.
C20_Suspicious ==
    lastStats.op = "format_markdown_test_result" =>
        LET bw == run.result.stats.bandwidth_gbps
            lat == run.result.stats.latency_ns
            theo == run.mem_specs.theoretical_bandwidth_gbps
            efficiency_above == /\ theo[1] > 0
                                /\ bw[1] * theo[2] * 100 > 50 * bw[2] * theo[1]
        IN  /\ lastStats.suspicious <=>
                   \/ run.mem_specs.is_virtualized /\ efficiency_above
                   \/ bw[1] * theo[2] > theo[1] * bw[2]
                   \/ lat[1] * 10 < lat[2]
                   \/ bw[1] <= 0
                   \/ lat[1] <= 0
            /\ run.result = lastStats.result
            /\ lastStats.row.warning = lastStats.suspicious
            /\ lastStats.row.working_set_desc = run.result.working_set_desc
            /\ lastStats.row.latency = lat
            /\ SameValue(lastStats.row.bandwidth, <<bw[1] * 8, bw[2]>>)

\* On a virtualized system with a theoretical bandwidth of 20 GB/s a result of
\* 11 GB/s (55 %) and 5 ns was marked, for the efficiency alone, and written.
C20_Witness ==
    /\ lastStats.op = "format_markdown_test_result"
    /\ run.mem_specs.is_virtualized
    /\ run.mem_specs.theoretical_bandwidth_gbps = <<20, 1>>
    /\ run.result.stats.bandwidth_gbps = <<11, 1>>
    /\ run.result.stats.latency_ns = <<5, 1>>
    /\ lastStats.suspicious
    /\ lastStats.row.warning
    /\ lastStats.result.stats.bandwidth_gbps = <<11, 1>>

(***************************************************************************)
(* MemoryUtils::scale_iterations on its own: one base count, two working   *)
(* set sizes.                                                              *)
(***************************************************************************)
\* 2^63, and the largest count whose product with 100000 fits in a size_t
\* (floor((2^64 - 1) / 100000) = 184467440737095) followed by its successor
TwoTo63 == <<0, 0, 0, LimbBase \div 2>>
LastFitting == Div(Div(SIZE_MAX, 1000), 100)
ScaleBases == {U(0), U(1), U(500), U(1000), LastFitting, Add(LastFitting, U(1)), TwoTo63}
ScaleSizes == {U(0), Sub(SMALL_CACHE_THRESHOLD, U(100)), SMALL_CACHE_THRESHOLD,
               Add(SMALL_CACHE_THRESHOLD, U(1)), MEDIUM_CACHE_THRESHOLD,
               Add(MEDIUM_CACHE_THRESHOLD, U(1)), LARGE_CACHE_THRESHOLD,
               Add(LARGE_CACHE_THRESHOLD, U(1)), GB}

ScaleInit ==
    /\ \E base_iterations \in ScaleBases, smaller \in ScaleSizes, larger \in ScaleSizes :
           /\ Le(smaller, larger)
           /\ run = [pc |-> "scale_iterations", base_iterations |-> base_iterations,
                     smaller |-> smaller, larger |-> larger]
    /\ lastStats = Idle
    /\ tester = Idle
    /\ stop_flag = FALSE
    /\ workers = <<>>
    /\ thread_results = <<>>
    /\ al = Idle
    /\ objs = <<>>
    /\ heap = <<>>
    /\ abLast = Idle
    /\ wsIn = Idle
    /\ wsOut = Idle

ScaleIterations ==
    /\ run.pc = "scale_iterations"
    /\ lastStats = Idle
    /\ lastStats' = [op |-> "scale_iterations",
                     at_smaller |-> scale_iterations(run.base_iterations, run.smaller),
                     at_larger |-> scale_iterations(run.base_iterations, run.larger)]
    /\ UNCHANGED <<tester, stop_flag, run, workers, thread_results,
                   alignVars, bufVars, wsVars>>

ScaleNext == ScaleIterations

SpecScale == ScaleInit /\ [][ScaleNext]_vars

\* C21: scale_iterations(base, ws) is never below base and never increases as
\* ws grows.
C21_NeverBelowBase ==
    lastStats.op = "scale_iterations" =>
        /\ Le(run.base_iterations, lastStats.at_smaller)
        /\ Le(run.base_iterations, lastStats.at_larger)
        /\ Le(lastStats.at_larger, lastStats.at_smaller)

\* C21, the tiers alone: the result is base x 100000 up to 4 MB (64 KB
\* included in the first tier), base x 1000 above 4 MB up to 8 MB and base above
\* 8 MB, each product taken modulo 2^64.
C21_Tiers ==
    lastStats.op = "scale_iterations" =>
        LET ws == run.smaller
            base == run.base_iterations
        IN  lastStats.at_smaller =
                IF Le(ws, Mul(Mul(U(4), 1024), 1024))
                THEN Mul(Mul(Mul(base, 100), 100), 10)
                ELSE IF Le(ws, Mul(Mul(U(8), 1024), 1024))
                THEN Mul(Mul(base, 100), 10)
                ELSE base

\* 500 iterations at exactly 8 MB and just above: 500000 and 500
C21_Witness ==
    /\ lastStats.op = "scale_iterations"
    /\ run.base_iterations = U(500)
    /\ run.smaller = LARGE_CACHE_THRESHOLD
    /\ run.larger = Add(LARGE_CACHE_THRESHOLD, U(1))
    /\ lastStats.at_smaller = U(500000)
    /\ lastStats.at_larger = U(500)

\* A thread that has been started and has not returned from its lambda
Running(w) == w.pc \in {"spawned", "loop", "body", "timed"}

\* C22: run_test starts exactly num_threads threads and goes on to its
\* aggregation only when every one of them has returned; no thread of an
\* earlier run_test is left when the next one starts its own, and the buffers
\* are neither released nor replaced while a thread runs.
C22_JoinedBeforeReturn ==
    /\ [](run.pc \in {"join", "joined"} =>
              /\ DOMAIN workers = 0..(run.num_threads - 1)
              /\ \A i \in DOMAIN workers : workers[i].pc # "unspawned")
    /\ [](run.pc = "joined" => \A i \in DOMAIN workers : workers[i].pc = "done")
    /\ [](run.pc = "idle" => \A i \in DOMAIN workers : ~Running(workers[i]))
    /\ [][tester' # tester => \A i \in DOMAIN workers : ~Running(workers[i])]_vars
    /\ [][(run.pc = "idle" /\ run'.pc = "spawn") => workers = <<>>]_vars

\* Three threads of a run over allocated buffers have all returned, the last of
\* them after an iteration, and the run is about to aggregate.
C22_Witness ==
    /\ run.pc = "joined"
    /\ run.num_threads = 3
    /\ \A i \in 0..2 : workers[i].pc = "done"
    /\ workers[2].iter = 1
    /\ tester.aligned_buffers # <<>>

(***************************************************************************)
(* MemoryUtils: validate_memory_operation and safe_memory_copy             *)
(***************************************************************************)
MAX_VALIDATED_CACHE_LINE == 1024

\* validate_memory_operation without its test for a range that rounding empties
validate_memory_operation_no_empty(start_offset, end_offset, buffer_size, cache_line_size) ==
    IF Lt(buffer_size, start_offset) \/ Lt(buffer_size, end_offset) THEN FALSE
    ELSE IF Le(end_offset, start_offset) THEN FALSE
    ELSE IF \/ cache_line_size = U(0)
            \/ And(cache_line_size, Sub(cache_line_size, U(1))) # U(0) THEN FALSE
    ELSE IF Lt(U(MAX_VALIDATED_CACHE_LINE), cache_line_size) THEN FALSE
    ELSE IF Lt(Add(Sub(SIZE_MAX, cache_line_size), U(1)), start_offset) THEN FALSE
    ELSE LET mask == Not(Sub(cache_line_size, U(1)))
             aligned_start == And(Add(start_offset, Sub(cache_line_size, U(1))), mask)
             aligned_end == And(end_offset, mask)
         IN  IF Le(buffer_size, aligned_start) \/ Lt(buffer_size, aligned_end) THEN FALSE
             ELSE IF Lt(buffer_size, Sub(aligned_end, aligned_start)) THEN FALSE
             ELSE TRUE

validate_memory_operation(start_offset, end_offset, buffer_size, cache_line_size) ==
    IF Lt(buffer_size, start_offset) \/ Lt(buffer_size, end_offset) THEN FALSE
    ELSE IF Le(end_offset, start_offset) THEN FALSE
    ELSE IF \/ cache_line_size = U(0)
            \/ And(cache_line_size, Sub(cache_line_size, U(1))) # U(0) THEN FALSE
    ELSE IF Lt(U(MAX_VALIDATED_CACHE_LINE), cache_line_size) THEN FALSE
    ELSE IF Lt(Add(Sub(SIZE_MAX, cache_line_size), U(1)), start_offset) THEN FALSE
    ELSE LET mask == Not(Sub(cache_line_size, U(1)))
             aligned_start == And(Add(start_offset, Sub(cache_line_size, U(1))), mask)
             aligned_end == And(end_offset, mask)
         IN  IF Le(buffer_size, aligned_start) \/ Lt(buffer_size, aligned_end) THEN FALSE
             ELSE IF Le(aligned_end, aligned_start) THEN FALSE
             ELSE IF Lt(buffer_size, Sub(aligned_end, aligned_start)) THEN FALSE
             ELSE TRUE

\* safe_memory_copy between two non-null buffers: the value returned and the
\* bytes [lo, hi) memcpy wrote in dst (none: lo = hi = 0)
safe_memory_copy(dst_size, src_size, offset, size) ==
    IF size = U(0) THEN [ok |-> TRUE, lo |-> U(0), hi |-> U(0)]
    ELSE IF Lt(Sub(SIZE_MAX, size), offset) THEN [ok |-> FALSE, lo |-> U(0), hi |-> U(0)]
    ELSE IF Lt(src_size, Add(offset, size)) THEN [ok |-> FALSE, lo |-> U(0), hi |-> U(0)]
    ELSE IF Lt(dst_size, Add(offset, size)) THEN [ok |-> FALSE, lo |-> U(0), hi |-> U(0)]
    ELSE [ok |-> TRUE, lo |-> offset, hi |-> Add(offset, size)]

\* Offsets, buffer sizes and cache line sizes of the calls
ValidateOffsets == {U(0), U(63), U(64), U(100), U(120), U(300), U(512), U(800), U(1000),
                    U(1024), U(1025), U(1200), Sub(SIZE_MAX, U(10)), SIZE_MAX}
ValidateBufferSizes == {U(10), U(1000), U(1024), SIZE_MAX}
ValidateCacheLines == {U(0), U(1), U(3), U(64), U(128), U(1024), U(2048)}

ValidateInit ==
    /\ \E start_offset \in ValidateOffsets, end_offset \in ValidateOffsets,
          buffer_size \in ValidateBufferSizes, cache_line_size \in ValidateCacheLines :
           run = [pc |-> "validate", start_offset |-> start_offset,
                  end_offset |-> end_offset, buffer_size |-> buffer_size,
                  cache_line_size |-> cache_line_size]
    /\ lastStats = Idle
    /\ tester = Idle
    /\ stop_flag = FALSE
    /\ workers = <<>>
    /\ thread_results = <<>>
    /\ al = Idle
    /\ objs = <<>>
    /\ heap = <<>>
    /\ abLast = Idle
    /\ wsIn = Idle
    /\ wsOut = Idle

ValidateMemoryOperation ==
    /\ run.pc = "validate"
    /\ lastStats' = [op |-> "validate_memory_operation",
                     valid |-> validate_memory_operation(run.start_offset, run.end_offset,
                                                         run.buffer_size,
                                                         run.cache_line_size)]
    /\ run' = [run EXCEPT !.pc = IF lastStats'.valid THEN "copy" ELSE "rejected"]
    /\ UNCHANGED <<tester, stop_flag, workers, thread_results,
                   alignVars, bufVars, wsVars>>

\* After a successful validation: align_to_cache_lines, then safe_memory_copy at
\* aligned_start over aligned_end - aligned_start bytes
SafeMemoryCopy ==
    /\ run.pc = "copy"
    /\ \E r \in {align_to_cache_lines(run.start_offset, run.end_offset,
                                      run.cache_line_size)} :
           lastStats' = [op |-> "safe_memory_copy", aligned_start |-> r[1],
                         aligned_end |-> r[2],
                         copy |-> safe_memory_copy(run.buffer_size, run.buffer_size,
                                                   r[1], Sub(r[2], r[1]))]
    /\ run' = [run EXCEPT !.pc = "copied"]
    /\ UNCHANGED <<tester, stop_flag, workers, thread_results,
                   alignVars, bufVars, wsVars>>

ValidateNext ==
    \/ ValidateMemoryOperation
    \/ SafeMemoryCopy

SpecValidate == ValidateInit /\ [][ValidateNext]_vars

\* C23: after validate_memory_operation(start, end, buffer_size, L) returned
\* true, the rounded range is non-empty and inside [0, buffer_size], and the copy
\* at aligned_start over aligned_end - aligned_start bytes succeeds and writes
\* exactly that range; and the validation returns false when start > buffer_size,
\* end > buffer_size, start >= end, or L is 0, not a power of two or above 1024.
C23_ValidatedCopy ==
    /\ lastStats.op = "safe_memory_copy" =>
           /\ Lt(lastStats.aligned_start, lastStats.aligned_end)
           /\ Le(lastStats.aligned_end, run.buffer_size)
           /\ Le(run.start_offset, lastStats.aligned_start)
           /\ Le(lastStats.aligned_end, run.end_offset)
           /\ lastStats.copy.ok
           /\ lastStats.copy.lo = lastStats.aligned_start
           /\ lastStats.copy.hi = lastStats.aligned_end
    /\ (/\ lastStats.op = "validate_memory_operation"
        /\ \/ Lt(run.buffer_size, run.start_offset)
           \/ Lt(run.buffer_size, run.end_offset)
           \/ Le(run.end_offset, run.start_offset)
           \/ ~PowerOfTwo(run.cache_line_size)
           \/ Lt(U(1024), run.cache_line_size))
           => ~lastStats.valid

\* validate_memory_operation(100, 800, 1000, 64) was true and the copy of
\* [128, 768) succeeded
C23_Witness ==
    /\ lastStats.op = "safe_memory_copy"
    /\ run.start_offset = U(100)
    /\ run.end_offset = U(800)
    /\ run.buffer_size = U(1000)
    /\ run.cache_line_size = U(64)
    /\ lastStats.copy = [ok |-> TRUE, lo |-> U(128), hi |-> U(768)]

\* The pattern is COPY or TRIAD and the tester holds fewer buffers than it takes
Starved == \/ run.pattern = "COPY" /\ Len(tester.aligned_buffers) < 2
           \/ run.pattern = "TRIAD" /\ Len(tester.aligned_buffers) < 4

\* C24: while the tester has no buffers (never allocated, cleaned up, or after
\* an allocation the allocator refused), no step starts a thread and a run_test
\* returns the all-zero record; and in a COPY run with fewer than 2 buffers or
\* a TRIAD run with fewer than 4 no thread reads or writes a byte and the run
\* reports 0 bytes processed.
C24_NoBuffersNoAccess ==
    /\ [][(run.pc = "idle" /\ tester.aligned_buffers = <<>>) =>
              /\ run'.pc = "idle"
              /\ workers' = <<>>
              /\ lastStats'.op = "run_test" => lastStats'.stats = ZeroStats]_vars
    /\ [](run.pc # "idle" => tester.aligned_buffers # <<>>)
    /\ []((run.pc # "idle" /\ Starved) =>
              \A i \in DOMAIN workers :
                  /\ thread_results[i].bytes_processed = 0
                  /\ workers[i].pc # "unspawned" =>
                         workers[i].reads = {} /\ workers[i].writes = {})
    /\ [][(run.pc = "joined" /\ Starved) => lastStats'.stats.bytes_processed = 0]_vars

\* The three threads of a TRIAD run on a tester holding one buffer have all
\* returned without an access.
C24_Witness ==
    /\ run.pc = "joined"
    /\ run.pattern = "TRIAD"
    /\ run.iterations = 1
    /\ run.num_threads = 3
    /\ Len(tester.aligned_buffers) = 1
    /\ \A i \in 0..2 : workers[i].pc = "done" /\ workers[i].reads = {}
    /\ \A i \in 0..2 : thread_results[i] = ZeroStats

\* C25: for a kernel called with start_offset <= end_offset <= buffer_size,
\* every byte range it has read or written lies in [aligned_start, aligned_end),
\* and that range, when it is not empty, lies in [start_offset, end_offset): so
\* every access is inside the range the kernel was given and inside the buffer.
C25_AccessInRange ==
    \A i \in DOMAIN workers :
        LET w == workers[i]
        IN  (/\ w.pc \notin {"unspawned", "spawned"}
             /\ w.start_offset <= w.end_offset
             /\ w.end_offset <= run.buffer_size) =>
                /\ w.aligned_start < w.aligned_end =>
                       /\ w.start_offset <= w.aligned_start
                       /\ w.aligned_end <= w.end_offset
                /\ \A a \in w.reads \cup w.writes :
                       /\ w.aligned_start <= a[2]
                       /\ a[2] < a[3]
                       /\ a[3] <= w.aligned_end
                       /\ w.start_offset <= a[2]
                       /\ a[3] <= w.end_offset
                       /\ a[3] <= run.buffer_size

\* The random-read kernel given [100, 200) has read the one full line
\* [128, 192) and returned.
C25_Witness ==
    /\ run.pc = "kernel"
    /\ run.pattern = "RANDOM_READ"
    /\ workers[0].pc = "done"
    /\ workers[0].start_offset = 100
    /\ workers[0].end_offset = 200
    /\ workers[0].reads = {<<1, 128, 192>>}

\* The bytes of [start_offset, end_offset) left after the start is rounded up
\* and the end down to a multiple of 64
RoundedLength(start_offset, end_offset) ==
    LET lo == ((start_offset + 63) \div 64) * 64
        hi == (end_offset \div 64) * 64
    IN  IF hi > lo THEN hi - lo ELSE 0

\* C26 as stated: when the threads of a sequential-read run have returned,
\* their bytes_processed add up to buffer_size x iterations.
C26_ExactCover ==
    (run.pc = "joined" /\ run.pattern = "SEQUENTIAL_READ" /\ ~stop_flag) =>
        TotalBytes(thread_results, DOMAIN thread_results)
            = run.buffer_size * run.iterations

\* C26, amended: each thread of an uncancelled sequential-read run reads the
\* part of its range left after rounding to 64 bytes and no byte of another
\* thread's; the threads' bytes_processed add up to at most buffer_size x
\* iterations, and to exactly that when 64 x thread_count divides buffer_size.
C26_RoundedCover ==
    (run.pc = "joined" /\ run.pattern = "SEQUENTIAL_READ" /\ ~stop_flag) =>
        LET total == TotalBytes(thread_results, DOMAIN thread_results)
        IN  /\ \A i \in DOMAIN workers :
                   /\ thread_results[i].bytes_processed =
                          RoundedLength(workers[i].start_offset, workers[i].end_offset)
                              * run.iterations
                   /\ \A a \in workers[i].reads :
                          /\ workers[i].start_offset <= a[2]
                          /\ a[3] <= workers[i].end_offset
                   /\ \A j \in DOMAIN workers :
                          i # j => \A a \in workers[i].reads, b \in workers[j].reads :
                                       ~Overlap(a, b)
            /\ total <= run.buffer_size * run.iterations
            /\ run.buffer_size % (64 * run.num_threads) = 0 =>
                   total = run.buffer_size * run.iterations

\* Three threads have read a 4100-byte buffer once: 1344 + 1280 + 1344 = 3968
\* bytes, 132 fewer than the buffer holds.
C26_Witness ==
    /\ run.pc = "joined"
    /\ run.pattern = "SEQUENTIAL_READ"
    /\ run.iterations = 1
    /\ run.num_threads = 3
    /\ run.buffer_size = 4100
    /\ TotalBytes(thread_results, DOMAIN thread_results) = 3968

\* The beyond-cache candidates of a cache hierarchy in the order the generator
\* walks them, and the label each has by where it comes from
BeyondCandidates(cache_info) ==
    <<Mul(cache_info.l3_size, 2), Mul(cache_info.l3_size, 4),
      Mul(MB, 64), Mul(MB, 256), GB, Mul(GB, 2), Mul(GB, 4)>>
OriginLabels == <<"2x SLC", "4x SLC", "64MB", "256MB", "1GB", "2GB", "4GB">>

\* C27: the beyond-cache entries of get_thread_aware_sizes, which are the last
\* entries of the list, carry the label of their origin: '2x SLC' and '4x SLC'
\* for the two multiples of the shared cache, '64MB' ... '4GB' for the fixed
\* sizes, also when a multiple and a fixed size are the same number of bytes.
C27_LabelledByOrigin ==
    (wsOut.pc = "done" /\ wsOut.op = "thread_aware") =>
        LET cand == BeyondCandidates(wsIn.cache_info)
            kept == {i \in 1..7 : /\ Le(MIN_WORKING_SET_SIZE, cand[i])
                                  /\ Le(cand[i], MAX_WORKING_SET_SIZE)}
            n == Len(wsOut.descriptions)
            k == Cardinality(kept)
        IN  \A i \in kept :
                LET at == n - k + Cardinality({j \in kept : j <= i})
                IN  /\ at >= 1
                    /\ wsOut.sizes[at] = cand[i]
                    /\ wsOut.descriptions[at] = OriginLabels[i]

\* C28: the bandwidth of the record run_test returns is at most the 60 GB/s
\* ceiling of calculate_stats.
C28_AggregateBelowCeiling ==
    (lastStats.op = "run_test" /\ run.pc = "idle") =>
        ~Exceeds(lastStats.stats.bandwidth_gbps[1], lastStats.stats.bandwidth_gbps[2],
                 MAX_REALISTIC_BANDWIDTH_GBPS)

\* C29: in run_cache_aware_test the run recorded under size S hands its threads
\* a range of S bytes in all, its iteration count is the base count scaled for
\* the size of that range, and a size S >= MIN_WORKING_SET_SIZE is skipped only
\* when the allocator has no memory for it.
C29_MeasuredOverLabelledSize ==
    /\ (wsIn.pc = "measured" /\ run.pc \in {"spawn", "join", "joined"}) =>
           /\ U(run.buffer_size) = wsOut.sizes[wsIn.i + 1]
           /\ U(run.iterations) = scale_iterations(U(wsIn.iterations), U(run.buffer_size))
    /\ (/\ wsIn.pc = "size"
        /\ lastStats.op = "allocate_buffers"
        /\ lastStats.outcome = "MemoryError"
        /\ Le(MIN_WORKING_SET_SIZE, lastStats.total_size)) => lastStats.served < 4

\* C30: whatever calls of allocate_buffers, cleanup_buffers and run_test came
\* before, and however they ended, aligned_buffers and buffers have the same
\* length, aligned_buffers[k] is the data address of the live buffer buffers[k]
\* and that buffer has current_buffer_size bytes; and a call of allocate_buffers
\* refused for its parameters (total_size 0, num_buffers 0, or a buffer size
\* below the minimum) leaves the tester as it was.
C30_PointersMatchBuffers ==
    /\ [](/\ Len(tester.aligned_buffers) = Len(tester.buffers)
          /\ \A k \in 1..Len(tester.buffers) :
                 /\ tester.buffers[k].state = "live"
                 /\ tester.aligned_buffers[k] = tester.buffers[k].aligned_ptr_
                 /\ tester.buffers[k].size_ = tester.current_buffer_size)
    /\ [][(/\ run.pc = "idle"
           /\ lastStats'.op = "allocate_buffers"
           /\ \/ lastStats'.total_size = U(0)
              \/ lastStats'.num_buffers = 0
              \/ Lt(Div(lastStats'.total_size, lastStats'.num_buffers), U(4096))
              \/ Lt(Div(lastStats'.total_size, lastStats'.num_buffers),
                    U(tester.cache_line_size)))
              => tester' = tester]_vars

\* A tester holding four buffers of 4100 bytes was asked for buffers of total
\* size 0: the call threw and the four buffers are still there.
C30_Witness ==
    /\ lastStats.op = "allocate_buffers"
    /\ lastStats.outcome = "MemoryError"
    /\ lastStats.total_size = U(0)
    /\ Len(tester.buffers) = 4
    /\ Len(tester.aligned_buffers) = 4
    /\ tester.current_buffer_size = U(4100)

====
